---- MODULE Spec2Model ----
(***************************************************************************)
(* ZivaFinance: the ledger valuation engine.  The transactions table is a  *)
(* sequence of rows in insertion order; every handler of the application   *)
(* that reads or writes it is one action.  Dates are ISO calendar dates    *)
(* written as the number YYYYMMDD (the text "2024-02-20" is 20240220), so  *)
(* that a stored text that is no calendar date (20240230) can be told from *)
(* a parsed one.  Amounts are whole currency units.                        *)
(***************************************************************************)
EXTENDS Integers, Sequences, FiniteSets, TLC

VARIABLES
    ledger,     \* the transactions table, rows in insertion order
    accounts,   \* the accounts table, rows in insertion order
    loans,      \* the loans table
    loan_extra_payments,    \* extra payments and adjustments of the loans
    loan_terms_history,     \* rate and fee changes of the loans
    budget_rules,   \* the budget_rules table
    categories, \* the categories table, rows in insertion order
    posts,      \* number of handler runs so far (bounded by MaxPosts)
    pc,         \* per session: position inside a stepwise handler run
    loc,        \* per session: the local variables of that run
    last_call,  \* the most recent run of _upsert_settlement_transfer
    view,       \* what the last rendered page computed
    probe       \* input and output of a pure function under test

loan_tables == <<loans, loan_extra_payments, loan_terms_history>>

budget_tables == <<budget_rules, categories>>

vars == <<ledger, accounts, loan_tables, budget_tables, posts, pc, loc, last_call, view, probe>>

(***************************************************************************)
(* Bounds of the model.                                                    *)
(***************************************************************************)
MaxPosts == 3
MaxAmount == 2
\* the records entered before the balance pages are rendered
MaxBalPosts == 2
\* the runs of the handlers that write rows of their own making
MaxEngineOps == 2
\* the months of payments the amortization executor is asked for
MaxMonthsToGen == 2
\* the calendar years, from 2023 on, the date arithmetic is run on
YearsProbed == 2

(***************************************************************************)
(* Calendar                                                                *)
(***************************************************************************)
\* pandas NaT / SQL NULL date
NaT == 0
\* the exception raised by datetime.replace(day=...) for a day not in the month
ValueError == -1
\* date.today()
Today == 20240215

Year(d) == d \div 10000
Month(d) == (d \div 100) % 100
Day(d) == d % 100
MkDate(y, m, d) == y * 10000 + m * 100 + d

IsLeap(y) == (y % 4 = 0 /\ y % 100 # 0) \/ y % 400 = 0

DaysInMonth(y, m) ==
    IF m = 2 THEN (IF IsLeap(y) THEN 29 ELSE 28)
    ELSE IF m \in {4, 6, 9, 11} THEN 30 ELSE 31

IsCalendarDate(s) ==
    /\ s > 0
    /\ Month(s) \in 1..12
    /\ Day(s) \in 1..DaysInMonth(Year(s), Month(s))

\* pd.to_datetime(x, errors="coerce"): a stored text that is no date gives NaT
to_datetime(s) == IF IsCalendarDate(s) THEN s ELSE NaT

\* d + relativedelta(months=1): next month, the day cut to that month's length
AddOneMonth(d) ==
    LET ny == IF Month(d) = 12 THEN Year(d) + 1 ELSE Year(d)
        nm == IF Month(d) = 12 THEN 1 ELSE Month(d) + 1
        dim == DaysInMonth(ny, nm)
    IN  MkDate(ny, nm, IF Day(d) > dim THEN dim ELSE Day(d))

\* d.replace(day=day): raises ValueError when the month has no such day
ReplaceDay(d, day) ==
    IF day \in 1..DaysInMonth(Year(d), Month(d))
    THEN MkDate(Year(d), Month(d), day)
    ELSE ValueError

(***************************************************************************)
(* Texts                                                                   *)
(***************************************************************************)
\* SQL NULL in a text column
Null == "<NULL>"
\* load_data_db called without a user_id keyword
NoUserArg == "<no user_id>"

\* every account or loan name that occurs
AccountNames == {"Visa", "Bruk", "Brukskonto", "Huslaan", "Spar"}

\* the description both rows of a settlement pair are written with
AutoSettleDescription(selected_account) == "Auto-settle for " \o selected_account

\* description LIKE '%Auto-settle%' / str.contains("Auto-settle")
ContainsAutoSettle(description) ==
    \E a \in AccountNames : description = AutoSettleDescription(a)

\* str(x).strip().lower() over the kind texts that occur
StripLower(t) ==
    CASE t \in {"Income", " INCOME "} -> "income"
      [] t \in {"Expense", "EXPENSE "} -> "expense"
      [] t \in {"Opening Balance", " opening balance"} -> "opening balance"
      [] t \in {"Transfer"} -> "transfer"
      [] t \in {"Deposit "} -> "deposit"
      [] t \in {"Opening_Balance"} -> "opening_balance"
      [] OTHER -> t

Abs(x) == IF x < 0 THEN -x ELSE x

\* a stored amount that is a text float() rejects, such as 'abc' in an
\* imported sheet
NotANumber == -999999

\* float(v) raises ValueError
float_raises(v) == v = NotANumber

\* try: amt = float(v) except: amt = 0.0
float_or_zero(v) == IF float_raises(v) THEN 0 ELSE v
\* a clamp with the comparison turned round
Min_larger(a, b) == IF a > b THEN a ELSE b
\* no clamp at all: the first of the two
Min_unclamped(a, b) == a
Min(a, b) == IF a < b THEN a ELSE b
Max(a, b) == IF a > b THEN a ELSE b

(***************************************************************************)
(* SignedLedgerClassifier                                                  *)
(***************************************************************************)
\* a classifier that knows the opening balance kind by the text
\* "opening_balance" only
_get_signed_amount_underscore(row) ==
    LET amt == float_or_zero(row.amount)
        t == StripLower(row.type)
    IN  IF t \in {"income", "deposit", "refund"} THEN amt
        ELSE IF t \in {"expense", "transfer", "withdrawal", "payment"} THEN -Abs(amt)
        ELSE IF t = "opening_balance" THEN amt
        ELSE 0

\* components/transactions_page.py
_get_signed_amount(row) ==
    LET amt == float_or_zero(row.amount)
        t == StripLower(row.type)
    IN  IF t \in {"income", "deposit", "refund"} THEN amt
        ELSE IF t \in {"expense", "transfer", "withdrawal", "payment"} THEN -Abs(amt)
        ELSE IF t = "opening balance" THEN amt
        ELSE 0

\* components/accounts_manager.py
_get_signed_amount_am(row) ==
    LET amt == float_or_zero(row.amount)
        t == StripLower(row.type)
    IN  IF t \in {"income", "opening balance", "deposit", "refund"} THEN amt
        ELSE IF t \in {"expense", "transfer", "withdrawal", "payment"} THEN -Abs(amt)
        ELSE 0

\* main.py, inside _get_balance_at_date
sign_amt(row) ==
    LET amt == row.amount
        t == StripLower(row.type)
    IN  IF t \in {"income", "opening balance", "deposit", "refund"} THEN amt
        ELSE IF t \in {"expense", "transfer", "withdrawal", "payment"} THEN -Abs(amt)
        ELSE 0

\* float(row["amount"]) of sign_amt raises
sign_amt_raises(row) == float_raises(row.amount)

RECURSIVE SumSigned(_)
\* df.apply(_get_signed_amount, axis=1).sum()
SumSigned(rows) ==
    IF Len(rows) = 0 THEN 0
    ELSE _get_signed_amount(Head(rows)) + SumSigned(Tail(rows))

(***************************************************************************)
(* Persistence                                                             *)
(***************************************************************************)
\* SELECT * FROM table [WHERE user_id = :user_id]
load_data_db(table, user_id) ==
    IF user_id = NoUserArg \/ user_id = "bypass"
    THEN table
    ELSE SelectSeq(table, LAMBDA r : r.user_id = user_id)

\* INSERT INTO table ... VALUES record
add_record_db(table, record) == Append(table, record)

\* str(type_val).strip().lower(), "" for no value
normalize_type(type_val) == StripLower(type_val)

\* insert the category for the user unless the user has one of that name
ensure_category_exists(table, category_name, category_type, user_id) ==
    IF category_name = "" THEN table
    ELSE IF \E i \in 1..Len(table) :
                table[i].name = category_name /\ table[i].user_id = user_id
    THEN table
    ELSE Append(table,
                [name |-> category_name,
                 type |-> IF normalize_type(category_type) = "" THEN "expense"
                          ELSE normalize_type(category_type),
                 parent_category |-> Null, user_id |-> user_id])

(***************************************************************************)
(* BalanceAggregator                                                       *)
(***************************************************************************)
RECURSIVE SumSignedAm(_)
\* df.apply(_get_signed_amount, axis=1).sum() in accounts_manager.py
SumSignedAm(rows) ==
    IF Len(rows) = 0 THEN 0
    ELSE _get_signed_amount_am(Head(rows)) + SumSignedAm(Tail(rows))

RECURSIVE SumSignAmt(_)
\* df_acc.apply(sign_amt, axis=1).sum() in main.py
SumSignAmt(rows) ==
    IF Len(rows) = 0 THEN 0
    ELSE sign_amt(Head(rows)) + SumSignAmt(Tail(rows))

AccountsIn(rows) == {rows[i].account : i \in 1..Len(rows)}

OnAccount(rows, account) == SelectSeq(rows, LAMBDA r : r.account = account)

\* accounts_manager.py: rows without a date fail "date_dt <= today" and go
_get_live_balances(tx_table, user_id) ==
    LET tx_df == load_data_db(tx_table, user_id)
        kept == SelectSeq(tx_df, LAMBDA r :
                    to_datetime(r.date) # NaT /\ to_datetime(r.date) <= Today)
    IN  [a \in AccountsIn(kept) |-> SumSignedAm(OnAccount(kept, a))]

\* transactions_page.py: rows without a date get today's date and stay
_compute_account_balances(df_all) ==
    LET date_dt(r) == IF to_datetime(r.date) = NaT THEN Today
                      ELSE to_datetime(r.date)
        df_current == SelectSeq(df_all, LAMBDA r : date_dt(r) <= Today)
    IN  [a \in AccountsIn(df_current) |-> SumSigned(OnAccount(df_current, a))]

\* _load_transactions: the owner's rows
_load_transactions(tx_table, user_id) == load_data_db(tx_table, user_id)

\* the reconcile tab's balance with the cutoff day itself left out
_calculate_system_balance_before(tx_table, account_name, date_limit, user_id) ==
    LET tx_df == OnAccount(load_data_db(tx_table, user_id), account_name)
        kept == SelectSeq(tx_df, LAMBDA r :
                    to_datetime(r.date) # NaT /\ to_datetime(r.date) < date_limit)
    IN  SumSignedAm(kept)

\* accounts_manager.py, the reconcile tab
_calculate_system_balance(tx_table, account_name, date_limit, user_id) ==
    LET tx_df == OnAccount(load_data_db(tx_table, user_id), account_name)
        kept == SelectSeq(tx_df, LAMBDA r :
                    to_datetime(r.date) # NaT /\ to_datetime(r.date) <= date_limit)
    IN  SumSignedAm(kept)

\* main.py: loads the table without an owner
_get_balance_at_date(tx_table, account_name, target_date) ==
    LET df_tx == load_data_db(tx_table, NoUserArg)
        df_acc == SelectSeq(df_tx, LAMBDA r :
                      /\ r.account = account_name
                      /\ to_datetime(r.date) # NaT
                      /\ to_datetime(r.date) <= target_date)
    IN  SumSignAmt(df_acc)

\* main.py: df_acc.apply(sign_amt, axis=1) raises on a row of the account
\* dated on or before the target date
_get_balance_at_date_raises(tx_table, account_name, target_date) ==
    LET df_tx == load_data_db(tx_table, NoUserArg)
    IN  \E i \in 1..Len(df_tx) :
            /\ df_tx[i].account = account_name
            /\ to_datetime(df_tx[i].date) # NaT
            /\ to_datetime(df_tx[i].date) <= target_date
            /\ sign_amt_raises(df_tx[i])

\* accounts_manager.py: the debt a card collected in one month
get_statement_balance(tx_table, card_name, billing_month, billing_year, user_id) ==
    LET card_tx == OnAccount(load_data_db(tx_table, user_id), card_name)
        statement_period == SelectSeq(card_tx, LAMBDA r :
                                /\ to_datetime(r.date) # NaT
                                /\ Month(to_datetime(r.date)) = billing_month
                                /\ Year(to_datetime(r.date)) = billing_year)
        net_val == SumSignedAm(statement_period)
    IN  IF net_val < 0 THEN Abs(net_val) ELSE 0

\* dict.get(key, 0.0) / Series.map(...).fillna(0.0)
BalanceOf(balances, account) ==
    IF account \in DOMAIN balances THEN balances[account] ELSE 0

(***************************************************************************)
(* AmortizationScheduler (components/loan_calculator.py).  Amounts are     *)
(* whole units and a rate is a whole percentage a year; a quotient is the  *)
(* whole quotient, which is the quotient itself for the loans of the model *)
(* (their amounts are multiples of 100 and their rates 0 or 12).           *)
(***************************************************************************)
\* 60 years cap
max_months == 720

\* start_date + relativedelta(months=+months): the day is cut to the month
_add_months(start_date, months) ==
    LET total == Year(start_date) * 12 + (Month(start_date) - 1) + months
        y == total \div 12
        m == (total % 12) + 1
    IN  MkDate(y, m, Min(Day(start_date), DaysInMonth(y, m)))

\* a count that takes the month of the start date as a month of its own
_count_months_inclusive(start_date, end_date) ==
    (Year(end_date) - Year(start_date)) * 12
        + Month(end_date) - Month(start_date) + 1

\* relativedelta(end_date, start_date): years * 12 + months
_count_months(start_date, end_date) ==
    LET diff == (Year(end_date) - Year(start_date)) * 12
                    + Month(end_date) - Month(start_date)
    IN  IF end_date >= start_date
        THEN IF end_date < _add_months(start_date, diff) THEN diff - 1 ELSE diff
        ELSE IF end_date > _add_months(start_date, diff) THEN diff + 1 ELSE diff

RECURSIVE Gcd(_, _)
Gcd(a, b) == IF b = 0 THEN a ELSE Gcd(b, a % b)

RECURSIVE Pow(_, _)
Pow(a, n) == IF n = 0 THEN 1 ELSE a * Pow(a, n - 1)

\* r * principal / (1 - (1 + r) ** (-months)) with r = annual_rate / 1200,
\* written over whole numbers: with a / b = (1200 + rate) / 1200 in lowest
\* terms it is principal * rate * a^months / (1200 * (a^months - b^months))
_calculate_annuity_payment(principal, annual_rate, months) ==
    IF months <= 0 THEN principal
    ELSE IF annual_rate <= 0 THEN principal \div months
    ELSE LET g == Gcd(1200 + annual_rate, 1200)
             a == Pow((1200 + annual_rate) \div g, months)
             b == Pow(1200 \div g, months)
         IN  (principal * annual_rate * a) \div (1200 * (a - b))

\* current_balance * monthly_rate, monthly_rate = (current_rate / 100.0) / 12.0
MonthlyInterest(current_balance, current_rate) ==
    (current_balance * current_rate) \div 1200

RECURSIVE SumAmounts(_)
SumAmounts(rows) ==
    IF Len(rows) = 0 THEN 0 ELSE Head(rows).amount + SumAmounts(Tail(rows))

\* extras[key] = float(row['amount']): the last extra payment of a month
\* alone
ExtraFor_last_only(extra_payments_df, year, month) ==
    LET of_month == SelectSeq(extra_payments_df, LAMBDA r :
                        Year(r.pay_date) = year /\ Month(r.pay_date) = month)
    IN  IF Len(of_month) = 0 THEN 0 ELSE of_month[Len(of_month)].amount

\* extras.get((year, month), 0.0): the extra payments of a month, added up
ExtraFor(extra_payments_df, year, month) ==
    SumAmounts(SelectSeq(extra_payments_df, LAMBDA r :
        Year(r.pay_date) = year /\ Month(r.pay_date) = month))

RECURSIVE SortByDate(_)
\* terms_changes.sort(key=date): rows of one date keep their order
SortByDate(rows) ==
    IF Len(rows) = 0 THEN << >>
    ELSE LET last == rows[Len(rows)]
             rest == SortByDate(SubSeq(rows, 1, Len(rows) - 1))
             upto == SelectSeq(rest, LAMBDA r : r.change_date <= last.change_date)
             after == SelectSeq(rest, LAMBDA r : r.change_date > last.change_date)
         IN  upto \o <<last>> \o after

\* the first change dated on or before current_date instead of the last
ActiveTerms_first_due(terms_changes, current_date) ==
    LET due == SelectSeq(terms_changes, LAMBDA r : r.change_date <= current_date)
    IN  IF Len(due) = 0 THEN << >> ELSE <<due[1]>>

\* the last change dated on or before current_date, as a list of 0 or 1 rows
ActiveTerms(terms_changes, current_date) ==
    LET due == SelectSeq(terms_changes, LAMBDA r : r.change_date <= current_date)
    IN  IF Len(due) = 0 THEN << >> ELSE <<due[Len(due)]>>

\* p holds the arguments of _generate_schedule
recalculate_payment(p, curr_bal, curr_rate, calc_date) ==
    IF p.mode = "date" /\ p.target_date # NaT
    THEN LET rem_months == Max(1, _count_months(calc_date, p.target_date))
         IN  IF p.loan_type = "Serial" THEN curr_bal \div rem_months
             ELSE IF p.loan_type = "Frame" THEN 0
             ELSE _calculate_annuity_payment(curr_bal, curr_rate, rem_months)
    ELSE p.target_payment

\* the payment day of the month of the start date, whatever its day
FirstPaymentDate_same_month(start_date, payment_day) ==
    ReplaceDay(start_date, payment_day)

\* the date of the first row: replace(day=payment_day) raises when the month
\* has no such day
FirstPaymentDate(start_date, payment_day) ==
    ReplaceDay(IF Day(start_date) > payment_day
               THEN _add_months(start_date, 1) ELSE start_date,
               payment_day)

\* the window without its two bounds
is_io_open_bounds(p, current_date) ==
    \/ /\ p.io_from # NaT /\ p.io_to # NaT
       /\ p.io_from < current_date /\ current_date < p.io_to
    \/ p.loan_type = "Frame"

\* the period pays interest only: its date lies in the window, or the loan
\* is a frame loan
is_io(p, current_date) ==
    \/ /\ p.io_from # NaT /\ p.io_to # NaT
       /\ p.io_from <= current_date /\ current_date <= p.io_to
    \/ p.loan_type = "Frame"

\* one pass of the while loop: st holds the variables the loop carries from
\* month to month
ScheduleStep(p, st) ==
    LET current_balance == st.current_balance
        current_date == st.current_date
        \* 1. update terms
        active_terms == ActiveTerms(p.terms_changes, current_date)
        new_rate == IF Len(active_terms) > 0 THEN active_terms[1].interest_rate
                    ELSE p.rate
        new_fee == IF Len(active_terms) > 0 THEN active_terms[1].admin_fee
                   ELSE p.admin_fee
        terms_changed == new_rate # st.current_rate
        current_rate == new_rate
        current_fee == new_fee
        \* 2. recalculate payment
        recalculated == terms_changed /\ p.mode = "date" /\ p.loan_type # "Frame"
        base_payment_val ==
            recalculate_payment(p, current_balance, current_rate, current_date)
        fixed_principal_amount ==
            IF recalculated /\ p.loan_type = "Serial" THEN base_payment_val
            ELSE st.fixed_principal_amount
        annuity_payment_amount ==
            IF recalculated /\ p.loan_type = "Annuity" THEN base_payment_val
            ELSE st.annuity_payment_amount
        \* 3. compute interest
        interest == MonthlyInterest(current_balance, current_rate)
        \* 4. payment
        base == Max(annuity_payment_amount, interest)
        principal_due ==
            IF is_io(p, current_date) THEN 0
            ELSE IF p.loan_type = "Serial" THEN fixed_principal_amount
            ELSE base - interest
        required_due ==
            IF is_io(p, current_date) THEN interest
            ELSE IF p.loan_type = "Serial" THEN principal_due + interest
            ELSE base
        principal_payment == Min(principal_due, current_balance)
        required_payment ==
            IF principal_due > current_balance THEN interest + principal_payment
            ELSE required_due
        extra_amt == ExtraFor(p.extras, Year(current_date), Month(current_date))
        excess == principal_payment + extra_amt - current_balance
        real_principal == Min(principal_payment + extra_amt, current_balance)
        total_deduction ==
            IF excess > 0 THEN required_payment + current_fee + extra_amt - excess
            ELSE required_payment + current_fee + extra_amt
        end_balance == current_balance - real_principal
        status_label ==
            IF p.loan_type = "Frame" /\ extra_amt > 0 THEN "Extra Payment"
            ELSE IF is_io(p, current_date) THEN "Interest Only" ELSE "Payment"
        row == [Month |-> st.month_idx, Date |-> current_date,
                Start_Balance |-> current_balance, Interest |-> interest,
                Rate |-> current_rate, Fee |-> current_fee,
                Principal |-> principal_payment, Extra_Adj |-> extra_amt,
                Admin_Fee |-> current_fee, Total_Payment |-> total_deduction,
                End_Balance |-> Max(0, end_balance), Status |-> status_label]
    IN  [current_balance |-> end_balance, current_rate |-> current_rate,
         current_date |-> _add_months(current_date, 1),
         month_idx |-> st.month_idx + 1,
         fixed_principal_amount |-> fixed_principal_amount,
         annuity_payment_amount |-> annuity_payment_amount,
         schedule |-> Append(st.schedule, row)]

RECURSIVE ScheduleLoop_until_zero(_, _, _)
\* a loop that runs until nothing at all is left
ScheduleLoop_until_zero(p, st, n) ==
    IF n = 0 \/ ~(st.current_balance > 0 /\ st.month_idx <= max_months) THEN st
    ELSE IF n = 1 THEN ScheduleStep(p, st)
    ELSE ScheduleLoop_until_zero(p, ScheduleLoop_until_zero(p, st, n \div 2),
                                 n - (n \div 2))

RECURSIVE ScheduleLoop_30_years(_, _, _)
\* a loop with a cap of 30 years
ScheduleLoop_30_years(p, st, n) ==
    IF n = 0 \/ ~(st.current_balance > 1 /\ st.month_idx <= 360) THEN st
    ELSE IF n = 1 THEN ScheduleStep(p, st)
    ELSE ScheduleLoop_30_years(p, ScheduleLoop_30_years(p, st, n \div 2),
                               n - (n \div 2))

RECURSIVE ScheduleLoop(_, _, _)
\* while current_balance > 1.0 and month_idx <= max_months: at most n passes
\* from st, run as two halves so that the nesting stays shallow
ScheduleLoop(p, st, n) ==
    IF n = 0 \/ ~(st.current_balance > 1 /\ st.month_idx <= max_months) THEN st
    ELSE IF n = 1 THEN ScheduleStep(p, st)
    ELSE ScheduleLoop(p, ScheduleLoop(p, st, n \div 2), n - (n \div 2))

\* The schedule of a loan: raised tells that the first date could not be
\* built (ValueError), rows are the rows of the data frame otherwise.
_generate_schedule(balance, rate, start_date, payment_day, mode, loan_type, target_payment, target_date, admin_fee, extra_payments_df, terms_history_df, io_from, io_to) ==
    LET p == [balance |-> balance, rate |-> rate, mode |-> mode,
              loan_type |-> loan_type, target_payment |-> target_payment,
              target_date |-> target_date, admin_fee |-> admin_fee,
              extras |-> extra_payments_df,
              terms_changes |-> SortByDate(terms_history_df),
              io_from |-> io_from, io_to |-> io_to]
        first_date == FirstPaymentDate(start_date, payment_day)
        base_payment_val == recalculate_payment(p, balance, rate, start_date)
    IN  IF first_date = ValueError THEN [raised |-> TRUE, rows |-> << >>]
        ELSE [raised |-> FALSE,
              rows |-> ScheduleLoop(p,
                  [current_balance |-> balance, current_rate |-> rate,
                   current_date |-> first_date, month_idx |-> 1,
                   fixed_principal_amount |->
                       IF loan_type = "Serial" THEN base_payment_val ELSE 0,
                   annuity_payment_amount |->
                       IF loan_type = "Annuity" THEN base_payment_val ELSE 0,
                   schedule |-> << >>],
                  max_months).schedule]

\* _load_adjustments / _load_terms_history: the rows of one loan, by date
_load_adjustments(table, loan_id) ==
    SelectSeq(table, LAMBDA r : r.loan_id = loan_id)

_load_terms_history(table, loan_id) ==
    SortByDate(SelectSeq(table, LAMBDA r : r.loan_id = loan_id))

(***************************************************************************)
(* SettlementReconciler                                                    *)
(***************************************************************************)
\* int(this_acc.get("credit_due_day", 20) or 20)
DueDayOf(this_acc) ==
    IF this_acc.credit_due_day = 0 THEN 20 ELSE this_acc.credit_due_day

\* this_acc.get("credit_source_account") or "Brukskonto"
SourceAccountOf(this_acc) ==
    IF this_acc.credit_source_account = "" THEN "Brukskonto"
    ELSE this_acc.credit_source_account

\* (trans_date + relativedelta(months=1)).replace(day=due_day)
SettlementDate(trans_date, due_day) == ReplaceDay(AddOneMonth(trans_date), due_day)

\* the rows month_mask keeps
MonthRows(tx_df, selected_account, trans_date) ==
    SelectSeq(tx_df, LAMBDA r :
        /\ r.account = selected_account
        /\ to_datetime(r.date) # NaT
        /\ Month(to_datetime(r.date)) = Month(trans_date)
        /\ Year(to_datetime(r.date)) = Year(trans_date)
        /\ ~ContainsAutoSettle(r.description))

\* existing_mask with the category of another kind of row: it never matches
ExistingRows_other_category(tx_df, user_id, settlement_date, selected_account) ==
    SelectSeq(tx_df, LAMBDA r :
        /\ r.user_id = user_id
        /\ r.date = settlement_date
        /\ r.account = selected_account
        /\ r.category = "Settlement"
        /\ ContainsAutoSettle(r.description))

\* the rows existing_mask keeps
ExistingRows(tx_df, user_id, settlement_date, selected_account) ==
    SelectSeq(tx_df, LAMBDA r :
        /\ r.user_id = user_id
        /\ r.date = settlement_date
        /\ r.account = selected_account
        /\ r.category = "Transfer"
        /\ ContainsAutoSettle(r.description))

\* What one run of _upsert_settlement_transfer decides from what it loads:
\* "return" (an early return), "raise" (the date arithmetic raised), "update"
\* or "insert", with the values the write uses.
SettlementPlan(tx_table, acc_table, user_id, selected_account, date_val) ==
    LET acc_df == load_data_db(acc_table, user_id)
        named == SelectSeq(acc_df, LAMBDA a : a.name = selected_account)
        none == [outcome |-> "return", settlement_date |-> NaT,
                 source_account |-> "", target |-> 0]
    IN  IF Len(named) = 0 THEN none
        ELSE IF named[1].account_type # "Credit Card" THEN none
        ELSE IF to_datetime(date_val) = NaT THEN none
        ELSE LET this_acc == named[1]
                 trans_date == to_datetime(date_val)
                 settlement_date == SettlementDate(trans_date, DueDayOf(this_acc))
                 tx_df == load_data_db(tx_table, user_id)
                 monthly_net_total ==
                     SumSigned(MonthRows(tx_df, selected_account, trans_date))
                 target_transfer_amount ==
                     IF monthly_net_total < 0 THEN Abs(monthly_net_total) ELSE 0
             IN  IF settlement_date = ValueError
                 THEN [none EXCEPT !.outcome = "raise"]
                 ELSE IF Len(tx_df) = 0 THEN none
                 ELSE [outcome |->
                          IF Len(ExistingRows(tx_df, user_id, settlement_date,
                                              selected_account)) # 0
                          THEN "update" ELSE "insert",
                       settlement_date |-> settlement_date,
                       source_account |-> SourceAccountOf(this_acc),
                       target |-> target_transfer_amount]

\* UPDATE transactions SET amount = :amt WHERE user_id = :uid AND date = :dt
\*   AND account = :acc AND description LIKE '%Auto-settle%'
UpdateSettlement(table, amt, uid, dt, acc) ==
    [i \in 1..Len(table) |->
        IF /\ table[i].user_id = uid
           /\ table[i].date = dt
           /\ table[i].account = acc
           /\ ContainsAutoSettle(table[i].description)
        THEN [table[i] EXCEPT !.amount = amt]
        ELSE table[i]]

out_transfer(user_id, selected_account, plan) ==
    [user_id |-> user_id, date |-> plan.settlement_date, amount |-> plan.target,
     type |-> "expense", account |-> plan.source_account, category |-> "Transfer",
     payee |-> "Settlement: " \o selected_account,
     description |-> AutoSettleDescription(selected_account)]

in_transfer(user_id, selected_account, plan) ==
    [out_transfer(user_id, selected_account, plan) EXCEPT
        !.type = "income",
        !.account = selected_account,
        !.payee = "From " \o plan.source_account]

\* The table after one whole run of _upsert_settlement_transfer.
_upsert_settlement_transfer(tx_table, acc_table, user_id, selected_account, date_val) ==
    LET plan == SettlementPlan(tx_table, acc_table, user_id, selected_account, date_val)
    IN  CASE plan.outcome = "update" ->
                UpdateSettlement(tx_table, plan.target, user_id,
                                 plan.settlement_date, selected_account)
          [] plan.outcome = "insert" ->
                add_record_db(
                    add_record_db(tx_table, out_transfer(user_id, selected_account, plan)),
                    in_transfer(user_id, selected_account, plan))
          [] OTHER -> tx_table

(***************************************************************************)
(* State                                                                   *)
(***************************************************************************)
Users == {"ann", "bob"}
Sessions == {"s1", "s2"}


AccountRow(user_id, name, account_type, is_default, credit_due_day, credit_source_account) ==
    [user_id |-> user_id, name |-> name, account_type |-> account_type,
     is_default |-> is_default, credit_due_day |-> credit_due_day,
     credit_source_account |-> credit_source_account]

\* the due days the card of the first owner may have been created with
DueDays == {20, 31}

\* Both owners hold a card and a current account of the same names; the
\* current account is the one onboarding marked as default.
InitialAccounts(due_day) ==
    << AccountRow("ann", "Visa", "Credit Card", FALSE, due_day, "Bruk"),
       AccountRow("ann", "Bruk", "Checking", TRUE, 20, ""),
       AccountRow("ann", "Spar", "Savings", FALSE, 20, ""),
       AccountRow("bob", "Visa", "Credit Card", FALSE, 20, "Bruk"),
       AccountRow("bob", "Bruk", "Checking", TRUE, 20, "") >>

\* a row of the categories table
CategoryRow(user_id, name, type) ==
    [name |-> name, type |-> type, parent_category |-> Null, user_id |-> user_id]

\* the categories onboarding seeds for every user, their types in lower case
InitialCategories ==
    << CategoryRow("ann", "Groceries", "expense"),
       CategoryRow("ann", "Salary", "income"),
       CategoryRow("bob", "Groceries", "expense"),
       CategoryRow("bob", "Salary", "income") >>

\* a row of the loans table as the loan page saves it
LoanRow(loan_type, calculation_mode, interest_rate, min_payment, target_date, admin_fee, payment_day) ==
    [id |-> 1, user_id |-> "ann", name |-> "Huslaan", balance |-> 200,
     interest_rate |-> interest_rate, min_payment |-> min_payment,
     admin_fee |-> admin_fee, payment_day |-> payment_day,
     pay_from_account |-> "Bruk", start_date |-> 20240101,
     target_date |-> target_date, calculation_mode |-> calculation_mode,
     loan_type |-> loan_type, interest_only_from |-> NaT,
     interest_only_to |-> NaT]

\* 200 at 12 % a year, repaid 100 a month
SerialLoan == LoanRow("Serial", "payment", 12, 100, NaT, 0, 15)

NoView == [page |-> "none"]
NoProbe == [fn |-> "none"]
Idle == [step |-> "idle"]
NoCall == [outcome |-> "none"]

\* the arguments and the outcome of a run of _upsert_settlement_transfer
CallOf(tx_table, user_id, selected_account, date_val) ==
    [outcome |-> SettlementPlan(tx_table, accounts, user_id,
                                selected_account, date_val).outcome,
     user_id |-> user_id, account |-> selected_account, date |-> date_val]

Init ==
    /\ ledger = << >>
    /\ accounts \in {InitialAccounts(d) : d \in DueDays}
    /\ loans = <<SerialLoan>>
    /\ loan_extra_payments = << >>
    /\ loan_terms_history = << >>
    /\ budget_rules = << >>
    /\ categories = InitialCategories
    /\ posts = 0
    /\ pc = [s \in Sessions |-> "idle"]
    /\ loc = [s \in Sessions |-> Idle]
    /\ last_call = NoCall
    /\ view = NoView
    /\ probe = NoProbe

\* the names a user can select on the transactions page
AccountsOf(user_id) ==
    {accounts[i].name : i \in {j \in 1..Len(accounts) : accounts[j].user_id = user_id}}

(***************************************************************************)
(* Transaction entry                                                       *)
(***************************************************************************)
\* "Save Record" of the one-time tab: insert the record, then reconcile the
\* settlement of the account it was posted to.
_dialog_add_transaction(user_id, selected_account, date_val, final_type, amount_val) ==
    /\ posts < MaxPosts
    /\ amount_val > 0
    /\ LET new_record ==
               [user_id |-> user_id, date |-> date_val, amount |-> amount_val,
                type |-> final_type, payee |-> "Kiwi", category |-> "Groceries",
                description |-> "", account |-> selected_account]
           added == add_record_db(ledger, new_record)
       IN  /\ ledger' = _upsert_settlement_transfer(
                            added, accounts, user_id, selected_account, date_val)
           /\ last_call' = CallOf(added, user_id, selected_account, date_val)
    /\ categories' = ensure_category_exists(categories, "Groceries", final_type,
                                            user_id)
    /\ posts' = posts + 1
    /\ view' = NoView
    /\ UNCHANGED <<accounts, loan_tables, budget_rules, pc, loc, probe>>

\* the dates entered on the card in the settlement runs
CardDates == {20240110, 20240125, 20240220}

AddOnCard ==
    \E d \in CardDates, t \in {"expense", "income"}, a \in 1..MaxAmount :
        _dialog_add_transaction("ann", "Visa", d, t, a)

AddElsewhere ==
    \/ _dialog_add_transaction("ann", "Bruk", 20240110, "expense", 1)
    \/ \E t \in {"expense", "income"} :
          _dialog_add_transaction("bob", "Visa", 20240110, t, 1)

\* current_d += relativedelta(months=1) / timedelta(weeks=1) /
\* relativedelta(years=1)
NextRecurringDate(current_d, r_freq) ==
    IF r_freq = "Monthly" THEN _add_months(current_d, 1)
    ELSE IF r_freq = "Yearly" THEN _add_months(current_d, 12)
    ELSE IF r_freq = "Weekly"
    THEN IF Day(current_d) + 7 <= DaysInMonth(Year(current_d), Month(current_d))
         THEN current_d + 7
         ELSE LET first == _add_months(MkDate(Year(current_d), Month(current_d), 1), 1)
              IN  MkDate(Year(first), Month(first),
                         Day(current_d) + 7
                             - DaysInMonth(Year(current_d), Month(current_d)))
    ELSE current_d

RECURSIVE RecurringLoop(_, _, _)
\* for i in range(int(r_count)): insert the record of the turn, then reconcile
\* the account; st holds the table, current_d and the last reconciler run, and
\* a run that raises ends the loop
RecurringLoop(f, st, i) ==
    IF i >= f.r_count THEN st
    ELSE LET current_d == IF i > 0 THEN NextRecurringDate(st.current_d, f.r_freq)
                          ELSE st.current_d
             added == add_record_db(st.table,
                 [user_id |-> f.user_id, date |-> current_d, amount |-> f.r_amt,
                  type |-> f.rec_type, payee |-> "Kiwi", category |-> "Groceries",
                  description |-> "Rec (" \o ToString(i + 1) \o "/"
                                      \o ToString(f.r_count) \o ")",
                  account |-> f.selected_account])
             call == CallOf(added, f.user_id, f.selected_account, current_d)
             next == [table |-> _upsert_settlement_transfer(
                                    added, accounts, f.user_id,
                                    f.selected_account, current_d),
                      current_d |-> current_d, call |-> call]
         IN  IF call.outcome = "raise" THEN next
             ELSE RecurringLoop(f, next, i + 1)

\* "Generate Transactions" of the recurring tab
tx_add_recurring(user_id, selected_account, r_start_date, r_freq, r_count, r_amt, rec_type) ==
    /\ posts < MaxPosts
    /\ r_amt > 0
    /\ LET f == [user_id |-> user_id, selected_account |-> selected_account,
                 r_freq |-> r_freq, r_count |-> r_count, r_amt |-> r_amt,
                 rec_type |-> rec_type]
           done == RecurringLoop(f, [table |-> ledger, current_d |-> r_start_date,
                                     call |-> NoCall], 0)
       IN  /\ ledger' = done.table
           /\ last_call' = done.call
    /\ posts' = posts + 1
    /\ view' = NoView
    /\ UNCHANGED <<accounts, loan_tables, budget_tables, pc, loc, probe>>

\* two monthly or weekly expenses on the card
AddRecurring ==
    \E d \in {20240110, 20240125}, r_freq \in {"Monthly", "Weekly"} :
        tx_add_recurring("ann", "Visa", d, r_freq, 2, 1, "expense")

Next ==
    \/ AddOnCard
    \/ AddElsewhere
    \/ AddRecurring

Spec == Init /\ [][Next]_vars

(***************************************************************************)
(* Two sessions of one owner saving records at the same time.  Every call  *)
(* of the persistence layer is one step: the insert of the record, the     *)
(* loads of the reconciler, its update, and each of its two inserts.       *)
(***************************************************************************)
\* add_record_db("transactions", new_record) of "Save Record"
SaveRecord(s, user_id, selected_account, date_val, final_type, amount_val) ==
    /\ pc[s] = "idle"
    /\ posts < MaxPosts
    /\ amount_val > 0
    /\ ledger' = add_record_db(ledger,
           [user_id |-> user_id, date |-> date_val, amount |-> amount_val,
            type |-> final_type, payee |-> "Kiwi", category |-> "Groceries",
            description |-> "", account |-> selected_account])
    /\ categories' = ensure_category_exists(categories, "Groceries", final_type,
                                            user_id)
    /\ posts' = posts + 1
    /\ pc' = [pc EXCEPT ![s] = "reconcile"]
    /\ loc' = [loc EXCEPT ![s] = [step |-> "saved", user_id |-> user_id,
                                  account |-> selected_account, date |-> date_val]]
    /\ UNCHANGED <<accounts, loan_tables, budget_rules, last_call, view, probe>>

\* load_data_db("accounts"), load_data_db("transactions") and the masks
LoadForReconcile(s) ==
    /\ pc[s] = "reconcile"
    /\ LET plan == SettlementPlan(ledger, accounts, loc[s].user_id,
                                  loc[s].account, loc[s].date)
       IN  IF plan.outcome \in {"update", "insert"}
           THEN /\ pc' = [pc EXCEPT ![s] = plan.outcome]
                /\ loc' = [loc EXCEPT ![s] =
                              [step |-> "loaded", user_id |-> loc[s].user_id,
                               account |-> loc[s].account, plan |-> plan]]
           ELSE /\ pc' = [pc EXCEPT ![s] = "idle"]
                /\ loc' = [loc EXCEPT ![s] = Idle]
    /\ UNCHANGED <<ledger, accounts, loan_tables, budget_tables, posts, last_call, view, probe>>

\* execute_query_db(update_sql, ...)
WriteUpdate(s) ==
    /\ pc[s] = "update"
    /\ ledger' = UpdateSettlement(ledger, loc[s].plan.target, loc[s].user_id,
                                  loc[s].plan.settlement_date, loc[s].account)
    /\ pc' = [pc EXCEPT ![s] = "idle"]
    /\ loc' = [loc EXCEPT ![s] = Idle]
    /\ UNCHANGED <<accounts, loan_tables, budget_tables, posts, last_call, view, probe>>

\* add_record_db("transactions", out_transfer)
InsertOut(s) ==
    /\ pc[s] = "insert"
    /\ ledger' = add_record_db(ledger,
                     out_transfer(loc[s].user_id, loc[s].account, loc[s].plan))
    /\ pc' = [pc EXCEPT ![s] = "insert_in"]
    /\ UNCHANGED <<accounts, loan_tables, budget_tables, posts, loc, last_call, view, probe>>

\* add_record_db("transactions", in_transfer)
InsertIn(s) ==
    /\ pc[s] = "insert_in"
    /\ ledger' = add_record_db(ledger,
                     in_transfer(loc[s].user_id, loc[s].account, loc[s].plan))
    /\ pc' = [pc EXCEPT ![s] = "idle"]
    /\ loc' = [loc EXCEPT ![s] = Idle]
    /\ UNCHANGED <<accounts, loan_tables, budget_tables, posts, last_call, view, probe>>

SaveOnCard(s) ==
    \E d \in {20240110, 20240125}, t \in {"expense", "income"}, a \in 1..MaxAmount :
        SaveRecord(s, "ann", "Visa", d, t, a)

NextConc ==
    \E s \in Sessions :
        \/ SaveOnCard(s)
        \/ LoadForReconcile(s)
        \/ WriteUpdate(s)
        \/ InsertOut(s)
        \/ InsertIn(s)

ConcSpec == Init /\ [][NextConc]_vars

(***************************************************************************)
(* The balance pages over a ledger entered through the AI smart entry,     *)
(* whose parsed date may be missing or no calendar date.                   *)
(***************************************************************************)
\* "Autofill & Save": the parsed record is inserted, then the reconciler runs
render_ai_smart_entry(user_id, selected_account, data) ==
    /\ LET record ==
               [user_id |-> user_id, date |-> data.date,
                type |-> StripLower(data.type), account |-> selected_account,
                category |-> data.category, payee |-> data.payee,
                amount |-> data.amount, description |-> data.description]
           added == add_record_db(ledger, record)
       IN  /\ ledger' = _upsert_settlement_transfer(
                            added, accounts, user_id, selected_account, data.date)
           /\ last_call' = CallOf(added, user_id, selected_account, data.date)
           /\ categories' = ensure_category_exists(categories, record.category,
                                                   record.type, user_id)
    /\ posts' = posts + 1
    /\ view' = NoView
    /\ UNCHANGED <<accounts, loan_tables, budget_rules, pc, loc, probe>>

\* a date before today, today, a later date, no date, and a text that is no date
EntryDates == {20240110, Today, 20240301, NaT, 20240230}

\* what the parser returned: the category, the payee and the description are
\* those the entry falls back to
Parsed(date, type, amount) ==
    [date |-> date, type |-> type, amount |-> amount,
     category |-> "Uncategorized", payee |-> "Unknown",
     description |-> "AI Entry"]

SmartEntry ==
    /\ posts < MaxBalPosts
    /\ \/ \E acc \in {"Bruk", "Spar"}, d \in EntryDates,
             e \in {<<"Income", MaxAmount>>, <<"expense", 1>>} :
             render_ai_smart_entry("ann", acc, Parsed(d, e[1], e[2]))
       \/ render_ai_smart_entry("bob", "Bruk", Parsed(20240110, "expense", 1))

\* render_accounts_manager: the live balances shown for the owner's accounts
RenderAccountsManager(user_id) ==
    /\ view' = [page |-> "accounts", user_id |-> user_id,
                balances |-> _get_live_balances(ledger, user_id)]
    /\ UNCHANGED <<ledger, accounts, loan_tables, budget_tables, posts, pc, loc, last_call, probe>>

\* render_transactions_page: the balances shown beside the account buttons
RenderTransactionsPage(user_id) ==
    /\ view' = [page |-> "transactions", user_id |-> user_id,
                balances |-> _compute_account_balances(
                                 _load_transactions(ledger, user_id))]
    /\ UNCHANGED <<ledger, accounts, loan_tables, budget_tables, posts, pc, loc, last_call, probe>>

\* the reconcile tab: "System thinks you have" for an account and a date
RenderReconcileTab(user_id, rec_account, rec_date) ==
    /\ rec_account \in AccountsOf(user_id)
    /\ view' = [page |-> "reconcile", user_id |-> user_id,
                account |-> rec_account, date |-> rec_date,
                balance |-> _calculate_system_balance(
                                ledger, rec_account, rec_date, user_id)]
    /\ UNCHANGED <<ledger, accounts, loan_tables, budget_tables, posts, pc, loc, last_call, probe>>

\* main.py: the balance of an account at a date, asked for by a signed-in user
RenderBalanceAtDate(user_id, account_name, target_date) ==
    /\ LET raised == _get_balance_at_date_raises(ledger, account_name, target_date)
       IN  view' = [page |-> "balance_at_date", user_id |-> user_id,
                    account |-> account_name,
                    date |-> target_date,
                    raised |-> raised,
                    balance |-> IF raised THEN Null
                                ELSE _get_balance_at_date(ledger, account_name,
                                                          target_date)]
    /\ UNCHANGED <<ledger, accounts, loan_tables, budget_tables, posts, pc, loc, last_call, probe>>

\* a past date, today, and the last day of the current month
CutoffDates == {20240110, Today, 20240229}

NextBal ==
    \/ SmartEntry
    \/ RenderAccountsManager("ann")
    \/ RenderTransactionsPage("ann")
    \/ \E acc \in {"Bruk", "Spar"}, d \in CutoffDates :
          RenderReconcileTab("ann", acc, d)
    \/ \E acc \in {"Bruk", "Spar"}, d \in CutoffDates :
          RenderBalanceAtDate("ann", acc, d)

BalSpec == Init /\ [][NextBal]_vars

(***************************************************************************)
(* The handlers that write transactions of their own making.               *)
(***************************************************************************)
RECURSIVE add_records_db(_, _)
\* add_record_db once for each record, in order
add_records_db(table, records) ==
    IF Len(records) = 0 THEN table
    ELSE add_records_db(add_record_db(table, Head(records)), Tail(records))

\* the loans the transactions page lists beside the accounts of the user
_load_loans_as_accounts(loans_table, user_id) ==
    {loans_table[i].name :
        i \in {j \in 1..Len(loans_table) : loans_table[j].user_id = user_id}}

\* a fixer that stores the debt as a positive amount
opening_tx_positive(user_id, selected_account, start_debt, start_date) ==
    [user_id |-> user_id, date |-> start_date, type |-> "Opening Balance",
     account |-> selected_account, category |-> "Adjustment",
     payee |-> "Opening Balance", amount |-> Abs(start_debt),
     description |-> "Initial Loan Balance"]

\* the loan opening balance fixer: "We save it as negative because it's debt"
opening_tx(user_id, selected_account, start_debt, start_date) ==
    [user_id |-> user_id, date |-> start_date, type |-> "Opening Balance",
     account |-> selected_account, category |-> "Adjustment",
     payee |-> "Opening Balance", amount |-> -Abs(start_debt),
     description |-> "Initial Loan Balance"]

\* render_transactions_page, "Set Balance" on a loan whose balance shows 0
SetLoanBalance(user_id, selected_account, start_debt, start_date) ==
    /\ posts < MaxEngineOps
    /\ selected_account \in _load_loans_as_accounts(loans, user_id)
    /\ BalanceOf(_compute_account_balances(_load_transactions(ledger, user_id)),
                 selected_account) = 0
    /\ ledger' = add_record_db(ledger, opening_tx(user_id, selected_account,
                                                  start_debt, start_date))
    /\ posts' = posts + 1
    /\ last_call' = NoCall
    /\ view' = NoView
    /\ UNCHANGED <<accounts, loan_tables, budget_tables, pc, loc, probe>>

\* the opening posting of the amortization executor
init_balance_record(user_id, loan_data, start_date_gen) ==
    [user_id |-> user_id, date |-> start_date_gen, amount |-> -loan_data.balance,
     type |-> "opening balance", account |-> loan_data.name,
     category |-> "Opening Balance", payee |-> "System",
     description |-> "Initial Loan Balance"]

\* the postings of one row of the schedule
row_records(user_id, loan_data, row) ==
    LET pay_date == row.Date
        interest == row.Interest
        fee == row.Admin_Fee
        reduction_amt == row.Principal + row.Extra_Adj
        expense(amount, category, payee, description) ==
            [user_id |-> user_id, date |-> pay_date, amount |-> amount,
             type |-> "expense", account |-> loan_data.pay_from_account,
             category |-> category, payee |-> payee, description |-> description]
    IN  (IF interest > 0
         THEN <<expense(-interest, "Loan Interest", loan_data.name,
                        "Loan Interest (" \o ToString(row.Rate) \o ".0%)")>>
         ELSE << >>)
        \o (IF fee > 0
            THEN <<expense(-fee, "Loan Fees", loan_data.name, "Loan Fee")>>
            ELSE << >>)
        \o (IF reduction_amt > 0
            THEN <<expense(-reduction_amt, "Loan Repayment",
                           "To " \o loan_data.name, "Principal Payment"),
                   [user_id |-> user_id, date |-> pay_date,
                    amount |-> reduction_amt, type |-> "income",
                    account |-> loan_data.name,
                    category |-> "Principal Reduction",
                    payee |-> "From " \o loan_data.pay_from_account,
                    description |-> "Principal Payment"]>>
            ELSE << >>)

RECURSIVE rows_records(_, _, _)
\* for _, row in df_to_process.iterrows()
rows_records(user_id, loan_data, df_to_process) ==
    IF Len(df_to_process) = 0 THEN << >>
    ELSE row_records(user_id, loan_data, Head(df_to_process))
             \o rows_records(user_id, loan_data, Tail(df_to_process))

\* df_sched.head(months_to_gen)
head(df, n) == SubSeq(df, 1, Min(n, Len(df)))

\* "Execute" in the dialog of a loan.  Nothing is written when the schedule
\* raised or came out empty.
_dialog_generate_transactions(user_id, loan_data, months_to_gen, start_date_gen, init_balance) ==
    /\ posts < MaxEngineOps
    /\ LET df_sched == _generate_schedule(
               loan_data.balance, loan_data.interest_rate, start_date_gen,
               loan_data.payment_day, loan_data.calculation_mode,
               loan_data.loan_type, loan_data.min_payment,
               to_datetime(loan_data.target_date), loan_data.admin_fee,
               _load_adjustments(loan_extra_payments, loan_data.id),
               _load_terms_history(loan_terms_history, loan_data.id),
               to_datetime(loan_data.interest_only_from),
               to_datetime(loan_data.interest_only_to))
           df_to_process == head(df_sched.rows, months_to_gen)
       IN  ledger' =
               IF df_sched.raised \/ Len(df_sched.rows) = 0 THEN ledger
               ELSE add_records_db(
                        ledger,
                        (IF init_balance
                         THEN <<init_balance_record(user_id, loan_data,
                                                    start_date_gen)>>
                         ELSE << >>)
                        \o rows_records(user_id, loan_data, df_to_process))
    /\ posts' = posts + 1
    /\ last_call' = NoCall
    /\ view' = NoView
    /\ UNCHANGED <<accounts, loan_tables, budget_tables, pc, loc, probe>>

\* add_record_db of a record that carries the key "initials": the transactions
\* table of init_db has no such column and the INSERT raises; a table made
\* with that column takes the row.
add_record_with_initials(table, record, has_initials_column) ==
    IF has_initials_column THEN add_record_db(table, record) ELSE table

\* "Add Account" of the quick-add form, for an account that is no credit card
QuickAddAccount(uid, final_name, account_type, qa_bal, qa_def, has_initials_column) ==
    /\ posts < MaxEngineOps
    /\ final_name \notin AccountsOf(uid)
    /\ accounts' = add_record_db(accounts,
                                 AccountRow(uid, final_name, account_type,
                                            qa_def, 20, ""))
    /\ ledger' =
           IF Abs(qa_bal) > 0
           THEN add_record_with_initials(ledger,
                    [date |-> Today,
                     type |-> IF qa_bal > 0 THEN "Income" ELSE "Expense",
                     account |-> final_name, category |-> "Opening Balance",
                     payee |-> "Opening Balance", amount |-> Abs(qa_bal),
                     description |-> "Initial account balance",
                     user_id |-> uid],
                    has_initials_column)
           ELSE ledger
    /\ posts' = posts + 1
    /\ last_call' = NoCall
    /\ view' = NoView
    /\ UNCHANGED <<loan_tables, budget_tables, pc, loc, probe>>

\* "Fix Balance Now" on the reconcile tab: the record carries no user_id
FixBalanceNow(uid, rec_account, rec_date, diff, has_initials_column) ==
    /\ posts < MaxEngineOps
    /\ rec_account \in AccountsOf(uid)
    /\ Abs(diff) > 0
    /\ LET system_balance ==
               _calculate_system_balance(ledger, rec_account, rec_date, uid)
           actual_balance == system_balance + diff
           adjustment_record ==
               [date |-> rec_date,
                type |-> IF diff > 0 THEN "Income" ELSE "Expense",
                account |-> rec_account, category |-> "Balance Adjustment",
                payee |-> "Manual Correction", amount |-> Abs(diff),
                description |-> "Reconciled to match bank balance of "
                                    \o ToString(actual_balance),
                user_id |-> Null]
       IN  ledger' = add_record_with_initials(ledger, adjustment_record,
                                              has_initials_column)
    /\ posts' = posts + 1
    /\ last_call' = NoCall
    /\ view' = NoView
    /\ UNCHANGED <<accounts, loan_tables, budget_tables, pc, loc, probe>>

\* a row of loan_extra_payments and one of loan_terms_history
ExtraPayment == [loan_id |-> 1, pay_date |-> 20240305, amount |-> 100, user_id |-> "ann"]
TermsChange ==
    [loan_id |-> 1, change_date |-> 20240301, interest_rate |-> 0,
     admin_fee |-> 5, user_id |-> "ann"]

\* the loan of the first owner, with its extra payments and changes of terms
LoanBooks ==
    { <<SerialLoan, << >>, << >>>>,
      <<LoanRow("Serial", "payment", 12, 100, NaT, 5, 15), << >>, <<TermsChange>>>>,
      <<LoanRow("Frame", "payment", 12, 0, NaT, 5, 1), <<ExtraPayment>>, << >>>>,
      <<LoanRow("Annuity", "date", 0, 100, 20240415, 0, 15), << >>, << >>>>,
      <<LoanRow("Serial", "payment", 12, 100, NaT, 0, 31), << >>, << >>>> }

InitEngine ==
    /\ ledger = << >>
    /\ accounts = InitialAccounts(20)
    /\ \E b \in LoanBooks :
          /\ loans = <<b[1]>>
          /\ loan_extra_payments = b[2]
          /\ loan_terms_history = b[3]
    /\ budget_rules = << >>
    /\ categories = InitialCategories
    /\ posts = 0
    /\ pc = [s \in Sessions |-> "idle"]
    /\ loc = [s \in Sessions |-> Idle]
    /\ last_call = NoCall
    /\ view = NoView
    /\ probe = NoProbe

\* the user's own entry on the card, which runs the reconciler
EntryOnCard ==
    \E t \in {"expense", "income"}, a \in 1..MaxAmount :
        /\ posts < MaxEngineOps
        /\ _dialog_add_transaction("ann", "Visa", 20240110, t, a)

NextEngine ==
    \/ EntryOnCard
    \/ \E d \in {0 - 1, 0, MaxAmount} :
          SetLoanBalance("ann", "Huslaan", d, 20240101)
    \/ \E n \in 1..MaxMonthsToGen, init_balance \in BOOLEAN :
          _dialog_generate_transactions("ann", loans[1], n, Today, init_balance)
    \/ \E b \in {0 - 1, 0, MaxAmount}, c \in BOOLEAN :
          QuickAddAccount("ann", "Kasse", "Savings", b, FALSE, c)
    \/ \E acc \in {"Bruk", "Visa"}, d \in {0 - 1, MaxAmount}, c \in BOOLEAN :
          FixBalanceNow("ann", acc, Today, d, c)

EngineSpec == InitEngine /\ [][NextEngine]_vars

(***************************************************************************)
(* The accounts page: quick-add and the edit-all table.                    *)
(***************************************************************************)
\* the smallest index of a non-empty set of row indexes
FirstOf(S) == CHOOSE i \in S : \A j \in S : i <= j

\* the table the editor hands back: the user's rows with the ticks the user
\* set in the columns "Default?" and "delete"
EditedTable(df, is_default, delete) ==
    [i \in 1..Len(df) |->
        [row |-> [df[i] EXCEPT !.is_default = is_default[i]],
         delete |-> delete[i]]]

RECURSIVE NotDeleted(_)
\* edited[~edited["delete"]]
NotDeleted(edited) ==
    IF Len(edited) = 0 THEN << >>
    ELSE (IF Head(edited).delete THEN << >> ELSE <<Head(edited).row>>)
             \o NotDeleted(Tail(edited))

\* when more than one row is ticked only the first keeps the tick
KeepFirstDefault(to_save) ==
    LET ticked == {i \in 1..Len(to_save) : to_save[i].is_default}
    IN  IF Cardinality(ticked) > 1
        THEN [i \in 1..Len(to_save) |->
                 [to_save[i] EXCEPT !.is_default = (i = FirstOf(ticked))]]
        ELSE to_save

\* df["name"].duplicated().any()
_validate_account_data(df) ==
    \A i, j \in 1..Len(df) : df[i].name = df[j].name => i = j

\* save_data_db(table, data, if_exists="replace"): save_data_db takes no such
\* keyword, the call raises TypeError and the table is left as it was
save_data_db_if_exists(table, data) == [raised |-> TRUE, table |-> table]

\* "Save All Changes" of the edit-all tab
SaveAllChanges(uid, is_default, delete) ==
    /\ posts < MaxEngineOps
    /\ LET df == load_data_db(accounts, uid)
           edited == EditedTable(df, is_default, delete)
           to_save == KeepFirstDefault(NotDeleted(edited))
           saved == save_data_db_if_exists(accounts, to_save)
       IN  /\ Len(df) > 0
           /\ _validate_account_data(to_save)
           /\ accounts' = saved.table
           /\ last_call' = [outcome |-> IF saved.raised THEN "error" ELSE "saved",
                            user_id |-> uid, to_save |-> to_save]
    /\ posts' = posts + 1
    /\ view' = NoView
    /\ UNCHANGED <<ledger, loan_tables, budget_tables, pc, loc, probe>>

\* the names typed into the quick-add form
NewAccountNames == {"Kasse", "Lomme"}

QuickAdd ==
    \E uid \in Users, n \in NewAccountNames, b \in {0, MaxAmount}, qa_def \in BOOLEAN :
        QuickAddAccount(uid, n, "Savings", b, qa_def, TRUE)

SaveAll ==
    \E uid \in Users :
        \E is_default \in [1..Len(load_data_db(accounts, uid)) -> BOOLEAN],
           gone \in 0..Len(load_data_db(accounts, uid)) :
            SaveAllChanges(uid, is_default,
                           [i \in 1..Len(load_data_db(accounts, uid)) |-> i = gone])

NextAcc == QuickAdd \/ SaveAll

AccSpec == Init /\ [][NextAcc]_vars

(***************************************************************************)
(* The budget engine (get_active_budget_rules,                             *)
(* calculate_monthly_budget_target, get_budget_vs_actual).  A month is the *)
(* date of its first day; a data frame whose row order is left open by an  *)
(* unstable sort is the set of the orders the sort may give.               *)
(***************************************************************************)
\* a row of budget_rules
BudgetRule(category, amount, frequency, start_date, is_active) ==
    [category |-> category, amount |-> amount, frequency |-> frequency,
     start_date |-> start_date, is_active |-> is_active,
     transfer_to_account |-> Null]

\* load_data_db("budget_rules")
get_active_budget_rules(rules_table) == load_data_db(rules_table, NoUserArg)

\* start_dt.replace(day=1)
FirstOfMonth(d) == MkDate(Year(d), Month(d), 1)

\* (month_date.year - start_dt.year) * 12 + (month_date.month - start_dt.month)
diff_months(month_date, start_dt) ==
    (Year(month_date) - Year(start_dt)) * 12 + (Month(month_date) - Month(start_dt))

\* a test of the quarter that takes four months for three
is_due_quarter_of_four(freq, diff) ==
    CASE freq = "Monthly" -> TRUE
      [] freq = "Quarterly" -> diff % 4 = 0
      [] freq = "Yearly" -> diff % 12 = 0
      [] freq = "Bi-Monthly" -> diff % 2 = 0
      [] freq = "Semi-Annually" -> diff % 6 = 0
      [] OTHER -> FALSE

\* is_due, by the frequency of the rule
is_due(freq, diff) ==
    CASE freq = "Monthly" -> TRUE
      [] freq = "Quarterly" -> diff % 3 = 0
      [] freq = "Yearly" -> diff % 12 = 0
      [] freq = "Bi-Monthly" -> diff % 2 = 0
      [] freq = "Semi-Annually" -> diff % 6 = 0
      [] OTHER -> FALSE

\* the body of the loop over the rules: does the row add a potential target
RuleHits(month_date, row) ==
    LET start_dt == to_datetime(row.start_date)
    IN  /\ row.is_active
        /\ start_dt # NaT
        /\ ~(month_date < FirstOfMonth(start_dt))
        /\ is_due(row.frequency, diff_months(month_date, start_dt))

RECURSIVE potential_targets(_, _)
potential_targets(month_date, rules_df) ==
    IF Len(rules_df) = 0 THEN << >>
    ELSE LET row == Head(rules_df)
         IN  (IF RuleHits(month_date, row)
              THEN <<[category |-> row.category, Target |-> row.amount,
                      start_date |-> to_datetime(row.start_date),
                      transfer_to_account |-> row.transfer_to_account]>>
              ELSE << >>)
                 \o potential_targets(month_date, Tail(rules_df))

\* sort_values(by="start_date", ascending=False): every order of the rows
\* in which no row comes before a row of a later start date
sort_values_descending(df) ==
    LET n == Len(df)
        perms == {f \in [1..n -> 1..n] : \A a, b \in 1..n : f[a] = f[b] => a = b}
    IN  {[k \in 1..n |-> df[f[k]]] :
            f \in {g \in perms :
                      \A a, b \in 1..n :
                          a < b => df[g[a]].start_date >= df[g[b]].start_date}}

\* drop_duplicates(subset="category", keep="last")
drop_duplicates_keep_last(df) ==
    LET keep == {i \in 1..Len(df) :
                    \A j \in (i + 1)..Len(df) : df[j].category # df[i].category}
    IN  SelectSeq([i \in 1..Len(df) |-> [row |-> df[i], kept |-> i \in keep]],
                  LAMBDA x : x.kept)

\* drop_duplicates(subset="category", keep="first")
drop_duplicates(df) ==
    LET keep == {i \in 1..Len(df) :
                    \A j \in 1..(i - 1) : df[j].category # df[i].category}
    IN  SelectSeq([i \in 1..Len(df) |-> [row |-> df[i], kept |-> i \in keep]],
                  LAMBDA x : x.kept)

\* the data frames calculate_monthly_budget_target may return
calculate_monthly_budget_target(month_date, rules_df) ==
    LET hits == potential_targets(month_date, rules_df)
    IN  {[k \in 1..Len(d) |-> d[k].row] :
            d \in {drop_duplicates(df_hits) :
                      df_hits \in sort_values_descending(hits)}}

\* df.groupby("category")[column].sum(), for one category
RECURSIVE GroupSum(_, _, _)
GroupSum(df, column, category) ==
    IF Len(df) = 0 THEN 0
    ELSE (IF Head(df).category = category THEN Head(df)[column] ELSE 0)
             + GroupSum(Tail(df), column, category)

CategoriesIn(df) == {df[i].category : i \in 1..Len(df)}

\* the categories get_budget_vs_actual leaves out of the actuals
exclude_cats == {"Transfer", "Opening Balance", "Unknown", "Balance Adjustment"}

\* the mask of get_budget_vs_actual on one transaction
budget_mask(row, selected_month) ==
    LET d == to_datetime(row.date)
    IN  /\ d # NaT
        /\ Year(d) = Year(selected_month)
        /\ Month(d) = Month(selected_month)
        /\ row.type \in {"Expense", "Income"}
        /\ row.category \notin exclude_cats

\* dict(zip(cat_df["name"], cat_df["type"])).get(category, "Expense")
cat_type_map(cat_df, category) ==
    LET at == {i \in 1..Len(cat_df) : cat_df[i].name = category}
    IN  IF at = {} THEN "Expense"
        ELSE cat_df[CHOOSE i \in at : \A j \in at : j <= i].type

\* apply_signed_logic on one of the two raw values
apply_signed_logic(c_type, raw) ==
    IF c_type = "Income" THEN raw ELSE -Abs(raw)

get_status(t, a) ==
    IF t = 0 /\ a = 0 THEN "Unbudgeted"
    ELSE IF a >= t THEN "Good" ELSE "Attention"

\* the rows of the report for one choice of the targets
BudgetReport(df_targets, df_tx, cat_df, selected_month) ==
    LET masked == SelectSeq(df_tx, LAMBDA r : budget_mask(r, selected_month))
        merged == CategoriesIn(df_targets) \cup CategoriesIn(masked)
    IN  {LET Target == GroupSum(df_targets, "Target", c)
             Actual == GroupSum(masked, "amount", c)
             c_type == cat_type_map(cat_df, c)
             t == apply_signed_logic(c_type, Target)
             a == apply_signed_logic(c_type, Actual)
         IN  [category |-> c, Target |-> Target, Actual |-> Actual,
              SignedTarget |-> t, SignedActual |-> a, Diff |-> a - t,
              Status |-> get_status(t, a)] : c \in merged}

\* the reports get_budget_vs_actual may return for the month
get_budget_vs_actual(selected_month, rules_table, tx_table, cat_table) ==
    LET rules == get_active_budget_rules(rules_table)
        df_tx == load_data_db(tx_table, NoUserArg)
        cat_df == load_data_db(cat_table, NoUserArg)
    IN  {BudgetReport(df_targets, df_tx, cat_df, selected_month) :
            df_targets \in calculate_monthly_budget_target(selected_month, rules)}

(***************************************************************************)
(* The budget page over a ledger filled by transaction entry, the          *)
(* transaction editor and the reconcile tab, with the rules of the planner *)
(* and the categories of the categories page.                              *)
(***************************************************************************)
\* update_record_db("transactions", {type: ...}, "id", id of the row)
update_record_db(table, i, column, value) ==
    [table EXCEPT ![i] = [table[i] EXCEPT ![column] = value]]

\* "Save Changes" of the transaction editor after the Type cell of one of the
\* user's rows was set to one of the options of the column
render_transaction_editor(user_id, i, type) ==
    /\ posts < MaxPosts
    /\ i \in 1..Len(ledger)
    /\ ledger[i].user_id = user_id
    /\ ledger' = update_record_db(ledger, i, "type", type)
    /\ posts' = posts + 1
    /\ last_call' = NoCall
    /\ view' = NoView
    /\ UNCHANGED <<accounts, loan_tables, budget_tables, pc, loc, probe>>

\* "Save" of the Add New Category dialog: the record carries no user_id
_dialog_add_category(name, c_type) ==
    /\ posts < MaxPosts
    /\ name # ""
    /\ LET df == load_data_db(categories, NoUserArg)
       IN  /\ \A i \in 1..Len(df) : df[i].name # name
           /\ categories' = add_record_db(categories, CategoryRow(Null, name, c_type))
    /\ posts' = posts + 1
    /\ last_call' = NoCall
    /\ view' = NoView
    /\ UNCHANGED <<ledger, accounts, loan_tables, budget_rules, pc, loc, probe>>

\* the tables the editor of the planner is saved with; the amounts are 100
\* and 250 and every rule is active
PlannerTables ==
    {<<BudgetRule("Groceries", 100, "Monthly", 20240101, TRUE)>>,
     <<BudgetRule("Salary", 250, "Monthly", 20240101, TRUE)>>,
     <<BudgetRule("Groceries", 100, "Monthly", 20240101, TRUE),
       BudgetRule("Salary", 250, "Quarterly", 20240115, TRUE)>>,
     <<BudgetRule("Bonus", 100, "Yearly", 20240201, TRUE)>>}

\* "Save Budget Rules": DELETE FROM budget_rules, then the edited table is
\* appended; the categories on offer are the names of the categories table
render_budget_planner(edited_rules) ==
    /\ posts < MaxPosts
    /\ \A k \in 1..Len(edited_rules) :
           \E i \in 1..Len(categories) : categories[i].name = edited_rules[k].category
    /\ budget_rules' = edited_rules
    /\ posts' = posts + 1
    /\ last_call' = NoCall
    /\ view' = NoView
    /\ UNCHANGED <<ledger, accounts, loan_tables, categories, pc, loc, probe>>

\* the month view of the budget page for the period selected
render_month_view(selected_month) ==
    /\ \E df_view \in get_budget_vs_actual(selected_month, budget_rules,
                                           ledger, categories) :
           view' = [page |-> "budget", selected_month |-> selected_month,
                    df_view |-> df_view]
    /\ UNCHANGED <<ledger, accounts, loan_tables, budget_tables, posts, pc, loc, last_call, probe>>

\* the two owners after onboarding, no rule saved yet
InitBudget ==
    /\ ledger = << >>
    /\ accounts = InitialAccounts(20)
    /\ loans = <<SerialLoan>>
    /\ loan_extra_payments = << >>
    /\ loan_terms_history = << >>
    /\ budget_rules = << >>
    /\ categories = InitialCategories
    /\ posts = 0
    /\ pc = [s \in Sessions |-> "idle"]
    /\ loc = [s \in Sessions |-> Idle]
    /\ last_call = NoCall
    /\ view = NoView
    /\ probe = NoProbe

\* the months of the periods selected and of the records entered
BudgetMonths == {20240101, 20240201}

EnterRecord ==
    \/ \E m \in BudgetMonths, t \in {"expense", "income"}, a \in 1..MaxAmount :
          _dialog_add_transaction("ann", "Bruk", m + 9, t, a)
    \/ _dialog_add_transaction("bob", "Bruk", 20240110, "expense", 1)

EditRecord ==
    \E i \in 1..MaxPosts, t \in {"Expense", "Income", "Transfer"} :
        render_transaction_editor("ann", i, t)

AddCategory == \E c_type \in {"Expense", "Income"} : _dialog_add_category("Bonus", c_type)

SaveBudgetRules == \E edited_rules \in PlannerTables : render_budget_planner(edited_rules)

FixBalance == \E c \in BOOLEAN : FixBalanceNow("ann", "Bruk", Today, MaxAmount, c)

MonthView == \E m \in BudgetMonths : render_month_view(m)

NextBudget ==
    \/ EnterRecord
    \/ EditRecord
    \/ AddCategory
    \/ SaveBudgetRules
    \/ FixBalance
    \/ MonthView

BudgetSpec == InitBudget /\ [][NextBudget]_vars

(***************************************************************************)
(* The balance pages over a ledger restored from a backup sheet, whose     *)
(* cells may hold a text that is no date or no number.                     *)
(***************************************************************************)
\* _clean_records_for_db on the sheet "transactions": a date that does not
\* parse becomes None, the owner is forced, every other cell is kept
RECURSIVE _clean_records_for_db(_, _)
_clean_records_for_db(df, user_id) ==
    IF Len(df) = 0 THEN << >>
    ELSE <<[Head(df) EXCEPT !.date = to_datetime(Head(df).date),
                            !.user_id = user_id]>>
             \o _clean_records_for_db(Tail(df), user_id)

\* "Restore": the owner's rows are deleted and the records of the sheet
\* inserted
render_import_section(user_id, df) ==
    /\ posts < MaxBalPosts
    /\ Len(df) > 0
    /\ LET records == _clean_records_for_db(df, user_id)
           others == SelectSeq(ledger, LAMBDA r : r.user_id # user_id)
       IN  ledger' = add_records_db(others, records)
    /\ posts' = posts + 1
    /\ last_call' = NoCall
    /\ view' = NoView
    /\ UNCHANGED <<accounts, loan_tables, budget_tables, pc, loc, probe>>

\* a row of the sheet
SheetRow(date, type, account, amount) ==
    [user_id |-> Null, date |-> date, type |-> type, account |-> account,
     category |-> "Groceries", payee |-> "Kiwi", amount |-> amount,
     description |-> ""]

\* the rows of the sheets: dates before and after today and a text that is no
\* date, amounts that are numbers and one that is a text
SheetRows ==
    {SheetRow(d, t, "Bruk", a) :
        d \in {20240110, 20240301, 20240230}, t \in {"Income", "Expense"},
        a \in {MaxAmount, NotANumber}}
        \cup {SheetRow(20240110, "Income", "Spar", 1)}

Sheets == {<<r>> : r \in SheetRows} \cup {<<r1, r2>> : r1 \in SheetRows, r2 \in SheetRows}

Restore == \E df \in Sheets : render_import_section("ann", df)

EnterOnBruk ==
    /\ posts < MaxBalPosts
    /\ \/ _dialog_add_transaction("ann", "Bruk", 20240110, "expense", 1)
       \/ _dialog_add_transaction("bob", "Bruk", 20240110, "income", 1)

NextImport ==
    \/ Restore
    \/ EnterOnBruk
    \/ RenderAccountsManager("ann")
    \/ RenderTransactionsPage("ann")
    \/ \E d \in CutoffDates : RenderReconcileTab("ann", "Bruk", d)
    \/ \E d \in CutoffDates : RenderBalanceAtDate("ann", "Bruk", d)

ImportSpec == InitBudget /\ [][NextImport]_vars

(***************************************************************************)
(* The pure functions, each run once on an input drawn at the start.       *)
(***************************************************************************)
InitRest ==
    /\ ledger = << >>
    /\ accounts = InitialAccounts(20)
    /\ loans = <<SerialLoan>>
    /\ loan_extra_payments = << >>
    /\ loan_terms_history = << >>
    /\ budget_rules = << >>
    /\ categories = InitialCategories
    /\ posts = 0
    /\ pc = [s \in Sessions |-> "idle"]
    /\ loc = [s \in Sessions |-> Idle]
    /\ last_call = NoCall
    /\ view = NoView

ProbeYears == 2023 .. (2022 + YearsProbed)

\* every calendar date of the years probed
ProbeDates ==
    {MkDate(y, m, d) : y \in ProbeYears, m \in 1..12, d \in 1..31} \cap
        {x \in 20230101 .. MkDate(2022 + YearsProbed, 12, 31) : IsCalendarDate(x)}

InitDate ==
    /\ InitRest
    /\ probe \in {[fn |-> "settlement_date", trans_date |-> d, due_day |-> k,
                   done |-> FALSE, out |-> NaT] :
                     d \in ProbeDates, k \in 1..31}

\* lines 182-185 of _upsert_settlement_transfer on a card with that due day
ComputeSettlementDate ==
    /\ probe.fn = "settlement_date"
    /\ ~probe.done
    /\ probe' = [probe EXCEPT
                    !.done = TRUE,
                    !.out = SettlementDate(to_datetime(probe.trans_date),
                                           probe.due_day)]
    /\ UNCHANGED <<ledger, accounts, loan_tables, budget_tables, posts, pc, loc, last_call, view>>

DateSpec == InitDate /\ [][ComputeSettlementDate]_vars

\* the kind texts a row may carry, as stored
KindTexts ==
    {"income", "Income", " INCOME ", "expense", "Expense", "EXPENSE ",
     "transfer", "Transfer", "withdrawal", "deposit", "Deposit ", "refund",
     "payment", "opening balance", "Opening Balance", " opening balance",
     "opening_balance", "Opening_Balance", "bonus", ""}

InitClassify ==
    /\ InitRest
    /\ probe \in {[fn |-> "classify", type |-> k, amount |-> a,
                   done |-> FALSE, page |-> 0, manager |-> 0, main |-> 0] :
                     k \in KindTexts, a \in (0 - MaxAmount) .. MaxAmount}

\* the three copies of the classifier on one row
Classify ==
    /\ probe.fn = "classify"
    /\ ~probe.done
    /\ LET row == [type |-> probe.type, amount |-> probe.amount]
       IN  probe' = [probe EXCEPT
                        !.done = TRUE,
                        !.page = _get_signed_amount(row),
                        !.manager = _get_signed_amount_am(row),
                        !.main = sign_amt(row)]
    /\ UNCHANGED <<ledger, accounts, loan_tables, budget_tables, posts, pc, loc, last_call, view>>

ClassifySpec == InitClassify /\ [][Classify]_vars

(***************************************************************************)
(* The schedule of a loan as the calculator's form asks for it             *)
(* (render_loan_calculator: "Calculate Plan").  The loans drawn are such   *)
(* that every quotient of the run is a whole number (ScheduleExact).       *)
(***************************************************************************)
\* the arguments of one call of _generate_schedule
ScheduleInput(balance, rate, start_date, payment_day, mode, loan_type, target_payment, target_date, extra_payments_df, io_from, io_to) ==
    [balance |-> balance, rate |-> rate, start_date |-> start_date,
     payment_day |-> payment_day, mode |-> mode, loan_type |-> loan_type,
     target_payment |-> target_payment, target_date |-> target_date,
     admin_fee |-> 50, extra_payments_df |-> extra_payments_df,
     terms_history_df |-> << >>, io_from |-> io_from, io_to |-> io_to]

LoanTypes == {"Annuity", "Serial", "Frame"}

\* the start dates of the form: before and after the payment day, and the
\* last day of a month
StartDates == {20240110, 20240120, 20240131}

\* an extra payment of 100 in March 2024
OneExtra == <<[loan_id |-> 1, pay_date |-> 20240305, amount |-> 100, user_id |-> "ann"]>>

\* "Fixed Amount" plans at no interest
FixedPlansNoInterest ==
    {ScheduleInput(b, 0, s, 15, "payment", t, p, NaT, << >>, NaT, NaT) :
        b \in {1, 12, 24, 1000, 12000}, p \in {1, 2, 1000},
        t \in {"Annuity", "Serial"}, s \in {20240110, 20240120}}

\* "Fixed Amount" plans at 12 % a year, with and without an extra payment
\* and an interest-only window
FixedPlansWithInterest ==
    {ScheduleInput(b, 12, s, 15, "payment", t, p, NaT, x, io[1], io[2]) :
        b \in {200, 300, 10000}, p \in {2, 100, 202, 5100},
        t \in LoanTypes, s \in {20240110, 20240120},
        x \in {<< >>, OneExtra},
        io \in {<<NaT, NaT>>, <<20240101, 20240228>>}}

\* "Target Date" plans: the target is months after the start date
TargetPlans ==
    {ScheduleInput(q[1], q[2], s, d, "date", "Annuity", 15000,
                   _add_months(s, q[3]), << >>, NaT, NaT) :
        q \in {<<300, 1200, 2>>, <<700, 1200, 3>>, <<1500, 1200, 4>>,
               <<100, 600, 2>>, <<2400, 0, 24>>, <<24, 0, 24>>,
               <<1442, 0, 721>>, <<100, 1200, 0>>},
        s \in StartDates, d \in {15, 28}}

ScheduleInputs == FixedPlansNoInterest \cup FixedPlansWithInterest \cup TargetPlans

\* the schedule of the plan i
ScheduleOf(i) ==
    _generate_schedule(i.balance, i.rate, i.start_date, i.payment_day, i.mode,
                       i.loan_type, i.target_payment, i.target_date,
                       i.admin_fee, i.extra_payments_df, i.terms_history_df,
                       i.io_from, i.io_to)

\* the months the payment of a "Target Date" plan is solved for
RemMonths(i) == Max(1, _count_months(i.start_date, i.target_date))

\* the payment the schedule starts with
BasePayment(i) == recalculate_payment(i, i.balance, i.rate, i.start_date)

\* every quotient taken in the run of plan i is a whole number: the interest
\* of every row, and the payment solved for a target date
ScheduleExact(i) ==
    LET rows == ScheduleOf(i).rows
        n == RemMonths(i)
        g == Gcd(1200 + i.rate, 1200)
        a == Pow((1200 + i.rate) \div g, n)
        b == Pow(1200 \div g, n)
    IN  /\ \A k \in 1..Len(rows) :
               (rows[k].Start_Balance * rows[k].Rate) % 1200 = 0
        /\ (i.mode = "date" /\ i.target_date # NaT) =>
               IF i.loan_type = "Serial" \/ i.rate = 0 THEN i.balance % n = 0
               ELSE (i.balance * i.rate * a) % (1200 * (a - b)) = 0

InitSchedule ==
    /\ InitRest
    /\ probe \in {[fn |-> "schedule", in |-> i, done |-> FALSE,
                   out |-> [raised |-> FALSE, rows |-> << >>]] :
                     i \in {j \in ScheduleInputs : ScheduleExact(j)}}

\* "Calculate Plan"
CalculatePlan ==
    /\ probe.fn = "schedule"
    /\ ~probe.done
    /\ probe' = [probe EXCEPT !.done = TRUE, !.out = ScheduleOf(probe.in)]
    /\ UNCHANGED <<ledger, accounts, loan_tables, budget_tables, posts, pc, loc, last_call, view>>

SchedSpec == InitSchedule /\ [][CalculatePlan]_vars

(***************************************************************************)
(* The targets of a month, computed once for a table of rules and a month  *)
(* drawn at the start.                                                     *)
(***************************************************************************)
\* the frequencies calculate_monthly_budget_target knows, and one it does not
Frequencies ==
    {"Monthly", "Bi-Monthly", "Quarterly", "Semi-Annually", "Yearly", "Weekly"}

\* the start dates of the rules: the first of a month, days within a month,
\* and no date
RuleStarts == {20240101, 20240115, 20240310, NaT}

\* the months the targets are asked for
TargetMonths ==
    {20231201, 20240101, 20240201, 20240301, 20240401, 20240501, 20240601,
     20240701, 20250101, 20250301}

\* tables of one rule
OneRuleTables ==
    {<<BudgetRule("Groceries", 100, f, s, a)>> :
        f \in Frequencies, s \in RuleStarts, a \in BOOLEAN}

\* the rules that meet in the tables of two
PairRules ==
    {BudgetRule(c, m, f, s, TRUE) :
        c \in {"Groceries", "Salary"}, m \in {100, 250},
        f \in {"Monthly", "Quarterly"}, s \in {20240101, 20240115, 20240310}}

TwoRuleTables == {<<r1, r2>> : r1 \in PairRules, r2 \in PairRules}

\* tables of three rules of one category
TripleRules ==
    {BudgetRule("Groceries", m, "Monthly", s, TRUE) :
        m \in {100, 250}, s \in {20240101, 20240310}}

ThreeRuleTables ==
    {<<r1, r2, r3>> : r1 \in TripleRules, r2 \in TripleRules, r3 \in TripleRules}

RuleTables == OneRuleTables \cup TwoRuleTables \cup ThreeRuleTables

InitTarget ==
    /\ ledger = << >>
    /\ accounts = InitialAccounts(20)
    /\ loans = <<SerialLoan>>
    /\ loan_extra_payments = << >>
    /\ loan_terms_history = << >>
    /\ budget_rules \in RuleTables
    /\ categories = InitialCategories
    /\ posts = 0
    /\ pc = [s \in Sessions |-> "idle"]
    /\ loc = [s \in Sessions |-> Idle]
    /\ last_call = NoCall
    /\ view = NoView
    /\ probe \in {[fn |-> "budget_target", month_date |-> m, done |-> FALSE,
                   out |-> << >>] : m \in TargetMonths}

\* df_targets = calculate_monthly_budget_target(month_date, rules)
TargetsForMonth ==
    /\ probe.fn = "budget_target"
    /\ ~probe.done
    /\ \E df_final \in calculate_monthly_budget_target(
                           probe.month_date, get_active_budget_rules(budget_rules)) :
           probe' = [probe EXCEPT !.done = TRUE, !.out = df_final]
    /\ UNCHANGED <<ledger, accounts, loan_tables, budget_tables, posts, pc, loc, last_call, view>>

TargetSpec == InitTarget /\ [][TargetsForMonth]_vars

(***************************************************************************)
(* The operations of the engine run once for an owner on tables that may   *)
(* hold nothing for that owner, or nothing at all.                         *)
(***************************************************************************)
\* the transactions table: empty, or one row of the second owner
SparseLedgers ==
    {<< >>,
     <<[user_id |-> "bob", date |-> 20240110, amount |-> 1, type |-> "expense",
        payee |-> "Kiwi", category |-> "Groceries", description |-> "",
        account |-> "Visa"]>>}

\* the operations run
EngineCalls ==
    {"_get_live_balances", "_compute_account_balances", "_calculate_system_balance",
     "_get_balance_at_date", "get_statement_balance",
     "calculate_monthly_budget_target", "_upsert_settlement_transfer"}

InitEmpty ==
    /\ ledger \in SparseLedgers
    /\ accounts \in {<< >>} \cup {InitialAccounts(d) : d \in DueDays}
    /\ loans = << >>
    /\ loan_extra_payments = << >>
    /\ loan_terms_history = << >>
    /\ budget_rules \in {<< >>, <<BudgetRule("Groceries", 100, "Monthly", 20240101, TRUE)>>}
    /\ categories = InitialCategories
    /\ posts = 0
    /\ pc = [s \in Sessions |-> "idle"]
    /\ loc = [s \in Sessions |-> Idle]
    /\ last_call = NoCall
    /\ view = NoView
    /\ probe \in {[fn |-> f, user_id |-> u, account |-> a, date |-> d,
                   done |-> FALSE, raised |-> FALSE, out |-> 0,
                   before |-> << >>] :
                     f \in EngineCalls, u \in Users, a \in {"Bruk", "Visa"},
                     d \in {20240110, Today}}

\* the result of the call the probe names; the reconciler's result is the
\* table it leaves
EngineResult(p) ==
    CASE p.fn = "_get_live_balances" -> _get_live_balances(ledger, p.user_id)
      [] p.fn = "_compute_account_balances" ->
             _compute_account_balances(_load_transactions(ledger, p.user_id))
      [] p.fn = "_calculate_system_balance" ->
             _calculate_system_balance(ledger, p.account, p.date, p.user_id)
      [] p.fn = "_get_balance_at_date" ->
             _get_balance_at_date(ledger, p.account, p.date)
      [] p.fn = "get_statement_balance" ->
             get_statement_balance(ledger, p.account, Month(p.date), Year(p.date),
                                   p.user_id)
      [] p.fn = "calculate_monthly_budget_target" ->
             calculate_monthly_budget_target(
                 FirstOfMonth(p.date), get_active_budget_rules(budget_rules))
      [] OTHER ->
             _upsert_settlement_transfer(ledger, accounts, p.user_id, p.account, p.date)

\* the call raises
EngineRaises(p) ==
    CASE p.fn = "_get_balance_at_date" ->
             _get_balance_at_date_raises(ledger, p.account, p.date)
      [] p.fn = "_upsert_settlement_transfer" ->
             SettlementPlan(ledger, accounts, p.user_id, p.account, p.date).outcome
                 = "raise"
      [] OTHER -> FALSE

\* the balances, the targets and the statement are read
CallReader ==
    /\ probe.fn \in EngineCalls \ {"_upsert_settlement_transfer"}
    /\ ~probe.done
    /\ probe' = [probe EXCEPT !.done = TRUE, !.raised = EngineRaises(probe),
                              !.out = EngineResult(probe), !.before = ledger]
    /\ UNCHANGED <<ledger, accounts, loan_tables, budget_tables, posts, pc, loc, last_call, view>>

\* the reconciler is run
CallReconciler ==
    /\ probe.fn = "_upsert_settlement_transfer"
    /\ ~probe.done
    /\ ledger' = EngineResult(probe)
    /\ last_call' = CallOf(ledger, probe.user_id, probe.account, probe.date)
    /\ probe' = [probe EXCEPT !.done = TRUE, !.raised = EngineRaises(probe),
                              !.before = ledger]
    /\ UNCHANGED <<accounts, loan_tables, budget_tables, posts, pc, loc, view>>

NextEmpty == CallReader \/ CallReconciler

EmptySpec == InitEmpty /\ [][NextEmpty]_vars

(***************************************************************************)
(* The schedules of the saved loans (render_loan_calculator: "Your Saved   *)
(* Loans"): a loan is drawn with the adjustments and the changes of terms  *)
(* recorded for it, and the page computes its schedule.  The loans drawn   *)
(* are such that every quotient of the run is a whole number.              *)
(***************************************************************************)
\* a row of loan_extra_payments as _dialog_manage_adjustments adds it
Adjustment(loan_id, pay_date, amount) ==
    [loan_id |-> loan_id, pay_date |-> pay_date, amount |-> amount, user_id |-> "ann"]

\* a row of loan_terms_history as _dialog_manage_terms adds it
NewTerms(loan_id, change_date, interest_rate, admin_fee) ==
    [loan_id |-> loan_id, change_date |-> change_date,
     interest_rate |-> interest_rate, admin_fee |-> admin_fee, user_id |-> "ann"]

\* the adjustments on record: none, one, two of one month, one larger than
\* the debt, a correction upwards, one before the first and one after the
\* last period, and one of another loan
AdjustmentTables ==
    { << >>,
      <<Adjustment(1, 20240305, 100)>>,
      <<Adjustment(1, 20240203, 100), Adjustment(1, 20240220, 200)>>,
      <<Adjustment(1, 20240220, 280)>>,
      <<Adjustment(1, 20240410, 5000)>>,
      <<Adjustment(1, 20240305, 0 - 100)>>,
      <<Adjustment(1, 20231210, 100), Adjustment(1, 20990101, 100)>>,
      <<Adjustment(2, 20240305, 100)>> }

\* the changes of terms on record for a loan of base rate r, hi and lo being
\* the rates it moves to: none, a change of the fee alone, changes of the
\* rate recorded in the order of their dates and against it, one dated on a
\* payment day, one before the first period, one after the last, and one of
\* another loan
TermsTables(r, hi, lo) ==
    { << >>,
      <<NewTerms(1, 20240301, r, 80)>>,
      <<NewTerms(1, 20240301, hi, 50)>>,
      <<NewTerms(1, 20240301, 0, 60)>>,
      <<NewTerms(1, 20240201, hi, 50), NewTerms(1, 20240401, lo, 60)>>,
      <<NewTerms(1, 20240401, lo, 60), NewTerms(1, 20240201, hi, 50)>>,
      <<NewTerms(1, 20240501, 0, 70), NewTerms(1, 20240315, hi, 50), NewTerms(1, 20240215, r, 90)>>,
      <<NewTerms(1, 20231201, hi, 60)>>,
      <<NewTerms(1, 20990101, hi, 60)>>,
      <<NewTerms(2, 20240301, hi, 80)>> }

\* the interest-only windows: none, one that starts and one that ends on a
\* payment day
Windows == {<<NaT, NaT>>, <<20240215, 20240331>>, <<20240201, 20240415>>}

\* a saved loan with what is recorded for it
SavedLoan(balance, rate, start_date, payment_day, mode, loan_type, target_payment, target_date, extra_payments_df, terms_history_df, io) ==
    [id |-> 1, balance |-> balance, rate |-> rate, start_date |-> start_date,
     payment_day |-> payment_day, mode |-> mode, loan_type |-> loan_type,
     target_payment |-> target_payment, target_date |-> target_date,
     admin_fee |-> 50, extra_payments_df |-> extra_payments_df,
     terms_history_df |-> terms_history_df, io_from |-> io[1], io_to |-> io[2]]

\* serial loans of 1200 repaid 300 a month, at 0 or 12 % a year
SavedSerialFixed ==
    UNION {
        {SavedLoan(1200, r, s, d, "payment", "Serial", 300, NaT, x, h, io) :
            s \in StartDates, d \in {15, 28},
            x \in AdjustmentTables, h \in TermsTables(r, 24, 12), io \in Windows} : r \in {0, 12}}

\* serial loans of 1200 repaid by a date four months or a year after the start
SavedSerialTarget ==
    UNION {
        {SavedLoan(1200, r, s, 15, "date", "Serial", 300, _add_months(s, n), x, h, io) :
            s \in {20240110, 20240115}, n \in {4, 12},
            x \in AdjustmentTables, h \in TermsTables(r, 24, 12), io \in Windows} : r \in {0, 12}}

\* annuity loans of 10000 repaid 5100 a month
SavedAnnuityFixed ==
    UNION {
        {SavedLoan(10000, r, s, 15, "payment", "Annuity", 5100, NaT, x, h, io) :
            s \in {20240110, 20240120},
            x \in AdjustmentTables, h \in TermsTables(r, 24, 12), io \in Windows} : r \in {0, 12}}

\* annuity loans of 1200 repaid by a date four months after the start, at no
\* interest or at 1200 % a year, which is the whole debt a month
SavedAnnuityTarget ==
    UNION {
        {SavedLoan(1200, r, s, 15, "date", "Annuity", 300, _add_months(s, 4), x, h, io) :
            s \in {20240110, 20240115},
            x \in AdjustmentTables, h \in TermsTables(r, 1200, 0), io \in Windows} : r \in {0, 1200}}

\* frame loans of 1200 at 12 % a year, in both modes
SavedFrameLoans ==
    {SavedLoan(1200, 12, 20240110, 15, m, "Frame", 300, 20240510, x, h, io) :
        m \in {"payment", "date"}, x \in AdjustmentTables,
        h \in {<< >>, <<NewTerms(1, 20240301, 24, 50)>>, <<NewTerms(1, 20240301, 12, 80)>>},
        io \in {<<NaT, NaT>>, <<20240215, 20240331>>}}

SavedLoans == SavedSerialFixed \cup SavedSerialTarget \cup SavedAnnuityFixed \cup SavedAnnuityTarget \cup SavedFrameLoans

\* df_preview of a saved loan
PreviewOf(i) ==
    _generate_schedule(i.balance, i.rate, i.start_date, i.payment_day, i.mode,
                       i.loan_type, i.target_payment, i.target_date,
                       i.admin_fee, _load_adjustments(i.extra_payments_df, i.id),
                       _load_terms_history(i.terms_history_df, i.id),
                       i.io_from, i.io_to)

\* the quotient recalculate_payment takes is a whole number
RecalcExact(i, curr_bal, curr_rate, calc_date) ==
    LET n == Max(1, _count_months(calc_date, i.target_date))
        g == Gcd(1200 + curr_rate, 1200)
        a == Pow((1200 + curr_rate) \div g, n)
        b == Pow(1200 \div g, n)
    IN  (i.mode = "date" /\ i.target_date # NaT /\ i.loan_type # "Frame") =>
            IF i.loan_type = "Serial" \/ curr_rate = 0 THEN curr_bal % n = 0
            ELSE (curr_bal * curr_rate * a) % (1200 * (a - b)) = 0

\* every quotient of the run of loan i is a whole number: the interest of
\* every row, the payment the run starts with, and the payment solved anew
\* in a row whose rate or fee is not that of the row before
PreviewExact(i) ==
    LET rows == PreviewOf(i).rows
        rate_before(k) == IF k = 1 THEN i.rate ELSE rows[k - 1].Rate
        fee_before(k) == IF k = 1 THEN i.admin_fee ELSE rows[k - 1].Fee
    IN  /\ RecalcExact(i, i.balance, i.rate, i.start_date)
        /\ \A k \in 1..Len(rows) :
              /\ (rows[k].Start_Balance * rows[k].Rate) % 1200 = 0
              /\ (rows[k].Rate # rate_before(k) \/ rows[k].Fee # fee_before(k)) =>
                     RecalcExact(i, rows[k].Start_Balance, rows[k].Rate,
                                 rows[k].Date)

InitSaved ==
    /\ InitRest
    /\ probe \in {[fn |-> "preview", in |-> i, done |-> FALSE,
                   out |-> [raised |-> FALSE, rows |-> << >>]] :
                     i \in {j \in SavedLoans : PreviewExact(j)}}

\* the page draws the expander of the loan
PreviewSavedLoan ==
    /\ probe.fn = "preview"
    /\ ~probe.done
    /\ probe' = [probe EXCEPT !.done = TRUE, !.out = PreviewOf(probe.in)]
    /\ UNCHANGED <<ledger, accounts, loan_tables, budget_tables, posts, pc, loc, last_call, view>>

SavedSpec == InitSaved /\ [][PreviewSavedLoan]_vars

(***************************************************************************)
(* Smart entries on the card (render_ai_smart_entry): the record is built  *)
(* from what the parser returns, date and description included; it is      *)
(* inserted and the account is reconciled.                                 *)
(***************************************************************************)
\* what the parser may return for a purchase: a date of January or February,
\* the due day of February among them, or a text that is no date; a
\* description of its own or one that repeats the words of a settlement
ParsedEntries ==
    [date : {20240110, 20240125, 20240220, 20240230},
     type : {"Expense"}, category : {"Groceries"}, payee : {"Kiwi"},
     amount : 1..MaxAmount,
     description : {"AI Entry", AutoSettleDescription("Visa")}]

\* the first owner enters a purchase on the card
SmartEntryOnCard ==
    /\ posts < MaxPosts
    /\ \E data \in ParsedEntries : render_ai_smart_entry("ann", "Visa", data)

\* an entry on an account that is no card, on one the owner has no more, and
\* an entry of the second owner on a card of the same name
SmartEntryElsewhere ==
    /\ posts < MaxPosts
    /\ \E data \in {e \in ParsedEntries : e.date = 20240110 /\ e.amount = 1} :
          \/ render_ai_smart_entry("ann", "Bruk", data)
          \/ render_ai_smart_entry("ann", "Kasse", data)
          \/ render_ai_smart_entry("bob", "Visa", data)

NextSmart ==
    \/ SmartEntryOnCard
    \/ SmartEntryElsewhere

SmartSpec == Init /\ [][NextSmart]_vars

(***************************************************************************)
(* The amortization executor run on a saved loan of 200 ("Execute" in the  *)
(* dialog of the loan), for the first months of its schedule.              *)
(***************************************************************************)
\* the loan with the adjustments recorded for it: loans whose last
\* installment fits, is clamped, or meets an extra payment that is clamped,
\* and frame loans with an extra payment below and above the debt
ExecutorBooks ==
    { <<LoanRow("Serial", "payment", 12, 100, NaT, 5, 15), << >>>>,
      <<LoanRow("Serial", "payment", 12, 100, NaT, 5, 15), <<ExtraPayment>>>>,
      <<LoanRow("Serial", "payment", 0, 150, NaT, 5, 15), << >>>>,
      <<LoanRow("Annuity", "payment", 0, 100, NaT, 5, 15), << >>>>,
      <<LoanRow("Annuity", "payment", 0, 150, NaT, 5, 15), <<ExtraPayment>>>>,
      <<LoanRow("Annuity", "date", 0, 100, 20240415, 5, 15), << >>>>,
      <<LoanRow("Frame", "payment", 12, 0, NaT, 5, 15), <<ExtraPayment>>>>,
      <<LoanRow("Frame", "payment", 12, 0, NaT, 5, 15),
        <<[ExtraPayment EXCEPT !.amount = 300]>>>> }

InitExecutor ==
    /\ ledger = << >>
    /\ accounts = InitialAccounts(20)
    /\ \E b \in ExecutorBooks :
          /\ loans = <<b[1]>>
          /\ loan_extra_payments = b[2]
    /\ loan_terms_history = << >>
    /\ budget_rules = << >>
    /\ categories = InitialCategories
    /\ posts = 0
    /\ pc = [s \in Sessions |-> "idle"]
    /\ loc = [s \in Sessions |-> Idle]
    /\ last_call = NoCall
    /\ view = NoView
    /\ probe = NoProbe

\* "Execute", for 1 to MaxMonthsToGen months from today
Execute ==
    \E n \in 1..MaxMonthsToGen, init_balance \in BOOLEAN :
        _dialog_generate_transactions("ann", loans[1], n, Today, init_balance)

ExecutorSpec == InitExecutor /\ [][Execute]_vars

(***************************************************************************)
(* Properties                                                              *)
(***************************************************************************)
RECURSIVE SumClassified(_)
\* the sum of classify over the rows of the ledger whose index is in the set idx
SumClassified(idx) ==
    IF idx = {} THEN 0
    ELSE LET i == CHOOSE j \in idx : TRUE
         IN  _get_signed_amount(ledger[i]) + SumClassified(idx \ {i})

LedgerDates == {ledger[i].date : i \in 1..Len(ledger)}

\* the card-side rows of the settlement pair of (owner, card, settlement date)
CardInflows(u, c, sd) ==
    {i \in 1..Len(ledger) :
        /\ ledger[i].user_id = u /\ ledger[i].date = sd
        /\ ledger[i].account = c /\ ledger[i].type = "income"
        /\ ledger[i].description = AutoSettleDescription(c)}

\* the funding-side rows of the settlement pair of (owner, card, settlement date)
FundingOutflows(u, c, sd) ==
    {i \in 1..Len(ledger) :
        /\ ledger[i].user_id = u /\ ledger[i].date = sd
        /\ ledger[i].type = "expense"
        /\ ledger[i].description = AutoSettleDescription(c)}

\* the owner's transactions on the card in the month of date d, settlements apart
MonthIndexes(u, c, d) ==
    {i \in 1..Len(ledger) :
        /\ ledger[i].user_id = u /\ ledger[i].account = c
        /\ IsCalendarDate(ledger[i].date)
        /\ Year(ledger[i].date) = Year(d) /\ Month(ledger[i].date) = Month(d)
        /\ ~ContainsAutoSettle(ledger[i].description)}

\* the settlement amount of the month of date d: the net spend, or 0
NetSpend(u, c, d) ==
    LET net == SumClassified(MonthIndexes(u, c, d))
    IN  IF net < 0 THEN -net ELSE 0

\* C1: after any sequence of reconcile runs and postings there is at most one
\* settlement pair per owner, card and settlement date: at most one card inflow
\* and at most one funding outflow, and as many of the one as of the other; a
\* run that wrote leaves exactly one pair, and the same run once more adds none.
C1_AtMostOnePair ==
    /\ \A u \in Users, c \in AccountNames, sd \in LedgerDates :
          /\ Cardinality(CardInflows(u, c, sd)) <= 1
          /\ Cardinality(FundingOutflows(u, c, sd)) <= 1
          /\ Cardinality(CardInflows(u, c, sd)) = Cardinality(FundingOutflows(u, c, sd))
    /\ last_call.outcome \in {"insert", "update"} =>
          LET u == last_call.user_id
              c == last_call.account
              sd == SettlementPlan(ledger, accounts, u, c, last_call.date).settlement_date
              again == _upsert_settlement_transfer(ledger, accounts, u, c, last_call.date)
          IN  /\ Cardinality(CardInflows(u, c, sd)) = 1
              /\ Cardinality(FundingOutflows(u, c, sd)) = 1
              /\ Len(again) = Len(ledger)

\* a run of the reconciler found the pair already there, and one pair is there
C1_Witness ==
    /\ last_call.outcome = "update"
    /\ \E sd \in LedgerDates :
          /\ Cardinality(CardInflows(last_call.user_id, last_call.account, sd)) = 1
          /\ Cardinality(FundingOutflows(last_call.user_id, last_call.account, sd)) = 1

\* C2: after a run of the reconciler that wrote, both rows of the pair of the
\* triggering month carry the month's net spend (0 when the net is not negative).
C2_BothRowsCarryNetSpend ==
    last_call.outcome \in {"insert", "update"} =>
        LET u == last_call.user_id
            c == last_call.account
            sd == SettlementPlan(ledger, accounts, u, c, last_call.date).settlement_date
        IN  /\ CardInflows(u, c, sd) # {}
            /\ FundingOutflows(u, c, sd) # {}
            /\ \A i \in CardInflows(u, c, sd) \cup FundingOutflows(u, c, sd) :
                  ledger[i].amount = NetSpend(u, c, last_call.date)

AllIdle == \A s \in Sessions : pc[s] = "idle"

\* the first day of the month before the month of date sd
MonthBefore(sd) ==
    IF Month(sd) = 1 THEN MkDate(Year(sd) - 1, 12, 1)
    ELSE MkDate(Year(sd), Month(sd) - 1, 1)

\* C3: when every concurrent run has finished, there is at most one settlement
\* pair per card and settlement date, and the card inflow of the pair carries
\* the net spend of the transactions then in the table.
C3_ConcurrentRunsLeaveOnePair ==
    AllIdle =>
        \A sd \in LedgerDates :
            /\ Cardinality(CardInflows("ann", "Visa", sd)) <= 1
            /\ Cardinality(FundingOutflows("ann", "Visa", sd)) <= 1
            /\ \A i \in CardInflows("ann", "Visa", sd) :
                  ledger[i].amount = NetSpend("ann", "Visa", MonthBefore(sd))

\* the month after the month of date d holds date x
InFollowingMonth(d, x) ==
    IF Month(d) = 12
    THEN Year(x) = Year(d) + 1 /\ Month(x) = 1
    ELSE Year(x) = Year(d) /\ Month(x) = Month(d) + 1


\* C4: for every triggering date and due day 1..31 the settlement date is
\* computed without an error, lies in the following calendar month, and its
\* day is the due day cut to the length of that month.
C4_SettlementDateClamped ==
    (probe.fn = "settlement_date" /\ probe.done) =>
        /\ probe.out # ValueError
        /\ InFollowingMonth(probe.trans_date, probe.out)
        /\ Day(probe.out) =
              Min(probe.due_day, DaysInMonth(Year(probe.out), Month(probe.out)))

\* the kinds lines 144-146 of _get_signed_amount count as outflows
NegativeKinds == {"expense", "transfer", "withdrawal", "payment"}

\* the value the classifier is to give: +amount, -amount or 0 by the kind
Classified(kinds_plus, kinds_minus, kind, plus, minus) ==
    IF StripLower(kind) \in kinds_plus THEN plus
    ELSE IF StripLower(kind) \in kinds_minus THEN minus
    ELSE 0

ClassifierGives(x) ==
    /\ probe.page = x
    /\ probe.manager = x

\* C5 as stated: +amount for income, opening_balance, deposit, refund; -amount
\* for expense, transfer, withdrawal, payment; 0 for every other kind.
C5_ClassifyAsStated ==
    (probe.fn = "classify" /\ probe.done) =>
        ClassifierGives(Classified({"income", "opening_balance", "deposit", "refund"},
                                   NegativeKinds, probe.type,
                                   probe.amount, 0 - probe.amount))

\* C5 amended: the opening balance kind is written "opening balance" (the text
\* "opening_balance" is no kind), and the outflow kinds give -|amount|; for an
\* enumerated kind and amount > 0 the result is not 0 and has the kind's sign.
C5_Classify ==
    (probe.fn = "classify" /\ probe.done) =>
        /\ ClassifierGives(Classified(
               {"income", "opening balance", "deposit", "refund"}, NegativeKinds,
               probe.type, probe.amount, 0 - Abs(probe.amount)))
        /\ probe.main = probe.page
        /\ (probe.amount > 0 /\ StripLower(probe.type) \in NegativeKinds)
              => probe.page < 0
        /\ (probe.amount > 0 /\ StripLower(probe.type) \in
                {"income", "opening balance", "deposit", "refund"})
              => probe.page > 0

\* an opening balance, written as the code writes it, was classified as inflow
C5_Witness ==
    /\ probe.fn = "classify" /\ probe.done
    /\ probe.type = "Opening Balance" /\ probe.amount = MaxAmount
    /\ probe.page = MaxAmount /\ probe.manager = MaxAmount
    /\ probe.main = MaxAmount

(***************************************************************************)
(* Balances                                                                *)
(***************************************************************************)
\* the rows a load for that owner returns; every row when no owner is given
RowsSeen(u) ==
    {i \in 1..Len(ledger) : u = NoUserArg \/ ledger[i].user_id = u}

\* the row carries a calendar date, and it is on or before the cutoff
OnOrBefore(i, cutoff) ==
    IsCalendarDate(ledger[i].date) /\ ledger[i].date <= cutoff

\* C6: the balance of an account as of a cutoff is the sum of classify over
\* exactly the loaded transactions of that account dated on or before the
\* cutoff (_calculate_system_balance over the owner's rows,
\* _get_balance_at_date over the rows it loads).
C6_BalanceAsOf ==
    /\ view.page = "reconcile" =>
          view.balance = SumClassified(
              {i \in RowsSeen(view.user_id) :
                  ledger[i].account = view.account /\ OnOrBefore(i, view.date)})
    /\ view.page = "balance_at_date" =>
          view.balance = SumClassified(
              {i \in RowsSeen(NoUserArg) :
                  ledger[i].account = view.account /\ OnOrBefore(i, view.date)})

\* a balance as of today was computed over a ledger holding a row of the
\* account dated today, and a row that must not count: one dated later or
\* one of another account
C6_Witness ==
    /\ view.page = "reconcile" /\ view.date = Today /\ view.balance # 0
    /\ \E i, j \in RowsSeen(view.user_id) :
          /\ ledger[i].account = view.account /\ ledger[i].date = Today
          /\ \/ ledger[j].account = view.account /\ ledger[j].date > Today
             \/ ledger[j].account # view.account /\ ledger[j].date = 20240110

\* C7: the accounts page and the transactions page show the same balance for
\* every account over the same transactions.
C7_PagesAgree ==
    /\ view.page = "accounts" =>
          \A a \in AccountNames :
              BalanceOf(view.balances, a) =
                  BalanceOf(_compute_account_balances(
                                _load_transactions(ledger, view.user_id)), a)
    /\ view.page = "transactions" =>
          \A a \in AccountNames :
              BalanceOf(view.balances, a) =
                  BalanceOf(_get_live_balances(ledger, view.user_id), a)

\* the date a row counts under when a missing or unparsable date means today
EffectiveDate(i) ==
    IF IsCalendarDate(ledger[i].date) THEN ledger[i].date ELSE Today

\* C8: a transaction whose date is missing or unparsable counts as dated today
\* in the live balance of its account and in the balance as of every cutoff on
\* or after today.
C8_UndatedCountsAsToday ==
    /\ view.page \in {"accounts", "transactions"} =>
          \A a \in AccountNames :
              BalanceOf(view.balances, a) = SumClassified(
                  {i \in RowsSeen(view.user_id) :
                      ledger[i].account = a /\ EffectiveDate(i) <= Today})
    /\ (view.page = "reconcile" /\ view.date >= Today) =>
          view.balance = SumClassified(
              {i \in RowsSeen(view.user_id) :
                  ledger[i].account = view.account
                  /\ EffectiveDate(i) <= view.date})

\* the ledger without the rows of every other owner
OwnRows(u) == SelectSeq(ledger, LAMBDA r : r.user_id = u)

\* C9: what a page computes for its owner is what it computes when the rows of
\* every other owner are taken out of the ledger.
C9_OwnerIsolation ==
    /\ view.page = "accounts" =>
          view.balances = _get_live_balances(OwnRows(view.user_id), view.user_id)
    /\ view.page = "transactions" =>
          view.balances = _compute_account_balances(OwnRows(view.user_id))
    /\ view.page = "reconcile" =>
          view.balance = _calculate_system_balance(
                             OwnRows(view.user_id), view.account, view.date,
                             view.user_id)
    /\ view.page = "balance_at_date" =>
          view.balance = _get_balance_at_date(
                             OwnRows(view.user_id), view.account, view.date)

(***************************************************************************)
(* Stored amounts                                                          *)
(***************************************************************************)
\* the rows of the ledger by the handler that wrote them
IsReconcilerRow(r) == r.category = "Transfer" /\ ContainsAutoSettle(r.description)
IsQuickAddRow(r) == r.category = "Opening Balance" /\ r.payee = "Opening Balance"
IsAdjustmentRow(r) == r.category = "Balance Adjustment"
IsFixerRow(r) == r.category = "Adjustment" /\ r.payee = "Opening Balance"
IsExecutorOpening(r) == r.category = "Opening Balance" /\ r.payee = "System"
IsExecutorOutflow(r) ==
    r.category \in {"Loan Interest", "Loan Fees", "Loan Repayment"}
IsExecutorInflow(r) == r.category = "Principal Reduction"

EngineRow(r) ==
    \/ IsReconcilerRow(r) \/ IsQuickAddRow(r) \/ IsAdjustmentRow(r)
    \/ IsFixerRow(r) \/ IsExecutorOpening(r) \/ IsExecutorOutflow(r)
    \/ IsExecutorInflow(r)

\* C10 as stated: every transaction an engine operation writes is stored with
\* amount >= 0.
C10_EngineAmountsNonNegative ==
    \A i \in 1..Len(ledger) : EngineRow(ledger[i]) => ledger[i].amount >= 0

\* C10 amended: the reconciler stores amount >= 0, the quick-add opening
\* balance and the reconcile adjustment store amount > 0; the loan opening
\* balance fixer stores -|debt| under the kind "Opening Balance"; the
\* amortization executor stores its opening posting as -balance under the kind
\* "opening balance", its interest, fee and repayment postings as negative
\* expenses, and only the principal reduction as a positive income.  A stored
\* negative amount is what the row adds to its balance when it is read.
C10_EngineAmounts ==
    \A i \in 1..Len(ledger) :
        LET r == ledger[i]
        IN  /\ IsReconcilerRow(r) => r.amount >= 0
            /\ (IsQuickAddRow(r) \/ IsAdjustmentRow(r)) =>
                  r.amount > 0 /\ r.type \in {"Income", "Expense"}
            /\ IsFixerRow(r) => r.amount <= 0 /\ r.type = "Opening Balance"
            /\ IsExecutorOpening(r) => r.amount < 0 /\ r.type = "opening balance"
            /\ IsExecutorOutflow(r) => r.amount < 0 /\ r.type = "expense"
            /\ IsExecutorInflow(r) => r.amount > 0 /\ r.type = "income"
            /\ (EngineRow(r) /\ r.amount < 0) => _get_signed_amount(r) = r.amount

\* the fixer has stored a debt, and the executor an opening posting and an
\* interest posting
C10_Witness ==
    \E i, j, k \in 1..Len(ledger) :
        /\ IsFixerRow(ledger[i]) /\ ledger[i].amount = 0 - MaxAmount
        /\ IsExecutorOpening(ledger[j]) /\ ledger[j].amount = 0 - 200
        /\ ledger[k].category = "Loan Interest" /\ ledger[k].amount = 0 - 2

(***************************************************************************)
(* C11                                                                     *)
(***************************************************************************)
\* the rows of the accounts table of owner u that are marked as default
DefaultsOf(u) ==
    {i \in 1..Len(accounts) : accounts[i].user_id = u /\ accounts[i].is_default}

\* C11: after any sequence of quick-adds (with or without "set as default")
\* and saves of the edit-all table, at most one account of each owner has
\* is_default = true.
C11_AtMostOneDefault ==
    \A u \in Users : Cardinality(DefaultsOf(u)) <= 1

(***************************************************************************)
(* C12 - C16: the schedule                                                 *)
(***************************************************************************)
\* the rows of the plan that was calculated
Rows == probe.out.rows

\* a plan has been calculated and a schedule came back
Planned == probe.fn = "schedule" /\ probe.done /\ ~probe.out.raised

\* the ending balance of the last period
LastEndBalance == Rows[Len(Rows)].End_Balance

\* the interest of a month on the opening balance of the plan
OpeningInterest(i) == MonthlyInterest(i.balance, i.rate)

\* C12: the schedule has at most 720 periods; no period follows one whose
\* ending balance is 1.0 or less, and the schedule goes on while the balance
\* is above 1.0 unless the cap of 720 ends it; an annuity plan whose payment
\* is not larger than the interest, with no extra payment, has exactly 720
\* periods and the last still ends with a positive balance.
C12_AtMost720Periods ==
    Planned =>
        LET i == probe.in
        IN  /\ Len(Rows) <= 720
            /\ \A k \in 1..(Len(Rows) - 1) : Rows[k].End_Balance > 1
            /\ (Len(Rows) = 0) <=> (i.balance <= 1)
            /\ Len(Rows) > 0 =>
                  \/ LastEndBalance <= 1
                  \/ Len(Rows) = 720 /\ LastEndBalance > 0
            /\ (/\ i.balance > 1
                /\ i.loan_type = "Annuity"
                /\ BasePayment(i) <= OpeningInterest(i)
                /\ i.extra_payments_df = << >>) =>
                  Len(Rows) = 720 /\ LastEndBalance > 0

\* a plan whose payment only covers the interest ran into the cap
C12_Witness ==
    /\ Planned
    /\ probe.in.loan_type = "Annuity"
    /\ probe.in.target_payment = OpeningInterest(probe.in)
    /\ Len(Rows) = 720
    /\ LastEndBalance = probe.in.balance

\* C13 as stated: a loan whose payment is greater than the monthly interest
\* on the opening balance reaches a period with endBalance <= 1.0 within 720
\* periods.
C13_PayoffWhenPaymentAboveInterest ==
    Planned =>
        LET i == probe.in
        IN  (i.balance > 1 /\ BasePayment(i) > OpeningInterest(i)) =>
                Len(Rows) \in 1..720 /\ LastEndBalance <= 1

\* C13 as amended: an Annuity or Serial loan with no interest-only window
\* and no change of terms whose payment exceeds the monthly interest on the opening balance by at
\* least a 720th of that balance reaches endBalance <= 1.0 within 720 periods.
C13_PayoffWithMargin ==
    Planned =>
        LET i == probe.in
        IN  (/\ i.balance > 1
             /\ i.loan_type \in {"Annuity", "Serial"}
             /\ i.io_from = NaT
             /\ i.terms_history_df = << >>
             /\ (BasePayment(i) - OpeningInterest(i)) * 720 >= i.balance) =>
                Len(Rows) \in 1..720 /\ LastEndBalance <= 1

\* 1000 at no interest repaid 2 a month is paid off in the 500th period
C13_Witness ==
    /\ Planned
    /\ probe.in.balance = 1000
    /\ probe.in.rate = 0
    /\ BasePayment(probe.in) = 2
    /\ Len(Rows) = 500
    /\ LastEndBalance = 0

\* a "Fixed Amount" plan at no interest whose payment divides the balance
EvenPlan(i) ==
    /\ i.rate = 0
    /\ i.mode = "payment"
    /\ i.loan_type \in {"Annuity", "Serial"}
    /\ i.target_payment > 0
    /\ i.balance % i.target_payment = 0
    /\ i.extra_payments_df = << >>
    /\ i.io_from = NaT

\* B / p periods, each with no interest and a principal of p, the last
\* ending at 0
StraightLine(i) ==
    /\ Len(Rows) = i.balance \div i.target_payment
    /\ \A k \in 1..Len(Rows) :
          Rows[k].Interest = 0 /\ Rows[k].Principal = i.target_payment
    /\ Len(Rows) > 0 /\ LastEndBalance = 0

MonthsToTarget(i) ==
    Cardinality({k \in 1..800 : _add_months(i.start_date, k) <= i.target_date})

\* a "Target Date" annuity plan with no extra payment, no change of terms
\* and no interest-only window
TargetAnnuity(i) ==
    /\ i.mode = "date"
    /\ i.target_date # NaT
    /\ i.loan_type = "Annuity"
    /\ i.extra_payments_df = << >>
    /\ i.terms_history_df = << >>
    /\ i.io_from = NaT
    /\ i.balance > 1

\* paid off in exactly the months to the target date (one month at least)
PaidOffOnTarget(i) ==
    /\ Len(Rows) = Max(1, MonthsToTarget(i))
    /\ LastEndBalance <= 1

\* C15 as stated: the payment solved for the months remaining to the target
\* date pays the annuity off in exactly that number of periods, whatever the
\* day of the start date relative to the payment day.
C15_RoundTrip ==
    Planned => (TargetAnnuity(probe.in) => PaidOffOnTarget(probe.in))

\* C15 as amended: the same when the months remaining are at most 720 and
\* the solved payment is larger than 1.0 plus a month's interest on 1.0, so
\* that the balance before the last period is above the payoff threshold.
C15_RoundTripWithinCap ==
    Planned =>
        LET i == probe.in
        IN  (/\ TargetAnnuity(i)
             /\ Max(1, MonthsToTarget(i)) <= 720
             /\ BasePayment(i) * 1200 > 1200 + i.rate) => PaidOffOnTarget(i)

\* a plan that starts after the payment day of the month and is paid off in
\* the 24 periods to its target date
C15_Witness ==
    /\ Planned
    /\ TargetAnnuity(probe.in)
    /\ Day(probe.in.start_date) > probe.in.payment_day
    /\ MonthsToTarget(probe.in) = 24
    /\ Len(Rows) = 24
    /\ LastEndBalance = 0

RECURSIVE SumReduction(_, _, _)
\* the sum of Principal + Extra / Adj over the rows lo..hi of a schedule
SumReduction(rows, lo, hi) ==
    IF lo > hi THEN 0
    ELSE IF lo = hi THEN rows[lo].Principal + rows[lo].Extra_Adj
    ELSE SumReduction(rows, lo, (lo + hi) \div 2)
             + SumReduction(rows, ((lo + hi) \div 2) + 1, hi)

\* C16: for a schedule that reaches exact payoff, the reported principal and
\* extra payments of all periods add up to the opening balance, also when the
\* installment or the extra payment of the last period was clamped.
C16_PrincipalAddsUp ==
    (Planned /\ Len(Rows) > 0 /\ LastEndBalance = 0) =>
        SumReduction(Rows, 1, Len(Rows)) = probe.in.balance

(***************************************************************************)
(* C17 - C18: the targets of a month                                       *)
(***************************************************************************)
\* the rule is due in the month: it is active, it has a start date whose
\* month is not after the month, and its frequency divides the months elapsed
DueInMonth(r, M) ==
    LET start == to_datetime(r.start_date)
        elapsedMonths == (Year(M) - Year(start)) * 12 + (Month(M) - Month(start))
    IN  /\ r.is_active
        /\ start # NaT
        /\ MkDate(Year(start), Month(start), 1) <= M
        /\ \/ r.frequency = "Monthly"
           \/ r.frequency = "Bi-Monthly" /\ elapsedMonths % 2 = 0
           \/ r.frequency = "Quarterly" /\ elapsedMonths % 3 = 0
           \/ r.frequency = "Semi-Annually" /\ elapsedMonths % 6 = 0
           \/ r.frequency = "Yearly" /\ elapsedMonths % 12 = 0

\* the rules of the category that are due in the month
DueRules(c, M) ==
    {i \in 1..Len(budget_rules) :
        budget_rules[i].category = c /\ DueInMonth(budget_rules[i], M)}

TargetsDone == probe.fn = "budget_target" /\ probe.done

\* C17: a category has a target in month M exactly when one of its rules is
\* active, started in a month not after M and has a frequency that falls on
\* M: Monthly always, Bi-Monthly, Quarterly, Semi-Annually and Yearly when the
\* months elapsed since the start are a multiple of 2, 3, 6 and 12.
C17_DueIffFrequencyFalls ==
    TargetsDone =>
        \A c \in {budget_rules[i].category : i \in 1..Len(budget_rules)} :
            (\E k \in 1..Len(probe.out) : probe.out[k].category = c)
                <=> DueRules(c, probe.month_date) # {}

\* the Quarterly rule of 2024-01-01 has its target in 2024-04
C17_Witness ==
    /\ TargetsDone
    /\ budget_rules = <<BudgetRule("Groceries", 100, "Quarterly", 20240101, TRUE)>>
    /\ probe.month_date = 20240401
    /\ Len(probe.out) = 1
    /\ probe.out[1].Target = 100

RECURSIVE SumAmountsOf(_)
SumAmountsOf(S) ==
    IF S = {} THEN 0
    ELSE LET i == CHOOSE x \in S : TRUE
         IN  budget_rules[i].amount + SumAmountsOf(S \ {i})

\* C18: the targets of a month hold at most one row for a category, a row
\* for every category with a due rule, and the row carries the amount of a
\* due rule of the category that no other due rule of it started after,
\* never the sum of the colliding rules.
C18_MostRecentRuleWins ==
    TargetsDone =>
        LET out == probe.out
            M == probe.month_date
        IN  /\ \A j, k \in 1..Len(out) : out[j].category = out[k].category => j = k
            /\ \A i \in 1..Len(budget_rules) :
                   DueInMonth(budget_rules[i], M) =>
                       \E k \in 1..Len(out) : out[k].category = budget_rules[i].category
            /\ \A k \in 1..Len(out) :
                   LET due == DueRules(out[k].category, M)
                   IN  /\ \E i \in due :
                              /\ out[k].Target = budget_rules[i].amount
                              /\ \A j \in due :
                                     to_datetime(budget_rules[j].start_date)
                                         <= to_datetime(budget_rules[i].start_date)
                       /\ Cardinality(due) > 1 => out[k].Target # SumAmountsOf(due)

\* two due rules of one category with different amounts, the later one first
\* in the table, and the target is the amount of the later one
C18_Witness ==
    /\ TargetsDone
    /\ Len(budget_rules) = 2
    /\ DueRules("Groceries", probe.month_date) = {1, 2}
    /\ to_datetime(budget_rules[1].start_date) > to_datetime(budget_rules[2].start_date)
    /\ budget_rules[1].amount # budget_rules[2].amount
    /\ Len(probe.out) = 1
    /\ probe.out[1].Target = budget_rules[1].amount

(***************************************************************************)
(* C19 - C20: the month view of the budget page                            *)
(***************************************************************************)
MonthViewed == view.page = "budget"

\* the sum of the amounts of the income and expense transactions of the
\* category dated in the month, whatever the case of the stored kind
RECURSIVE ActualOfMonth(_, _, _)
ActualOfMonth(rows, c, M) ==
    IF Len(rows) = 0 THEN 0
    ELSE LET r == Head(rows)
             d == to_datetime(r.date)
         IN  (IF /\ r.category = c
                 /\ d # NaT /\ Year(d) = Year(M) /\ Month(d) = Month(M)
                 /\ StripLower(r.type) \in {"income", "expense"}
              THEN r.amount ELSE 0) + ActualOfMonth(Tail(rows), c, M)

\* the categories a rule or a transaction names, the structural ones apart
BudgetCategories ==
    ({ledger[i].category : i \in 1..Len(ledger)}
        \cup {budget_rules[i].category : i \in 1..Len(budget_rules)})
        \ {"Transfer", "Opening Balance", "Balance Adjustment", "Unknown"}

\* C19: in the report of month M the actual of a category that is not
\* structural is the sum of the amounts of its income and expense
\* transactions dated in M, those stored with a lowercase kind by
\* transaction entry included; a category with a target and no such
\* transaction is listed with actual 0, one with such transactions and no
\* target with target 0.
C19_ActualIsSumOfMonth ==
    MonthViewed =>
        \A c \in BudgetCategories :
            LET M == view.selected_month
                want == ActualOfMonth(ledger, c, M)
                due == DueRules(c, M) # {}
                rows == {r \in view.df_view : r.category = c}
            IN  /\ \A r \in rows : r.Actual = want
                /\ (want # 0 \/ due) => rows # {}
                /\ ~due => \A r \in rows : r.Target = 0

\* the category is declared as an income category
DeclaredIncome(c) ==
    \E i \in 1..Len(categories) :
        categories[i].name = c /\ StripLower(categories[i].type) = "income"

\* C20: every row of the report carries its target and its actual as they
\* are when the category is declared income and as -|x| otherwise, and its
\* status is Unbudgeted when both signed values are zero, Good when the
\* signed actual is at least the signed target, Attention otherwise.
C20_SignedByDeclaredType ==
    MonthViewed =>
        \A r \in view.df_view :
            LET t == IF DeclaredIncome(r.category) THEN r.Target ELSE 0 - Abs(r.Target)
                a == IF DeclaredIncome(r.category) THEN r.Actual ELSE 0 - Abs(r.Actual)
            IN  /\ r.SignedTarget = t
                /\ r.SignedActual = a
                /\ r.Status = (IF t = 0 /\ a = 0 THEN "Unbudgeted"
                               ELSE IF a >= t THEN "Good" ELSE "Attention")

(***************************************************************************)
(* C21: malformed rows                                                     *)
(***************************************************************************)
\* the rows that carry a calendar date and a numeric amount
WellFormed(rows) ==
    SelectSeq(rows, LAMBDA r : to_datetime(r.date) # NaT /\ ~float_raises(r.amount))

\* the rows of the account dated on or before the cutoff
UpTo(rows, account, cutoff) ==
    SelectSeq(rows, LAMBDA r : r.account = account /\ to_datetime(r.date) <= cutoff)

\* what the page shows is the sum over the well-formed rows it loads
SumOverTheRest ==
    LET own == WellFormed(load_data_db(ledger, view.user_id))
        every == WellFormed(load_data_db(ledger, NoUserArg))
    IN  CASE view.page = "accounts" ->
                 \A a \in AccountsIn(ledger) :
                     BalanceOf(view.balances, a) = SumSignedAm(UpTo(own, a, Today))
          [] view.page = "transactions" ->
                 \A a \in AccountsIn(ledger) :
                     BalanceOf(view.balances, a) = SumSigned(UpTo(own, a, Today))
          [] view.page = "reconcile" ->
                 view.balance = SumSignedAm(UpTo(own, view.account, view.date))
          [] view.page = "balance_at_date" ->
                 /\ ~view.raised
                 /\ view.balance = SumSignAmt(UpTo(every, view.account, view.date))
          [] OTHER -> TRUE

\* C21: a balance page over a ledger that holds a row with an unparsable
\* date or a non-numeric amount does not abort, shows the sum over the other
\* rows, and leaves the stored rows as they were.
C21_MalformedRowsExcluded ==
    [][view' # view /\ view'.page # "none" => ledger' = ledger /\ SumOverTheRest']_vars

(***************************************************************************)
(* C22: empty result sets                                                  *)
(***************************************************************************)
\* the tables the call loads hold nothing for it
LoadsNothing(p) ==
    CASE p.fn = "_get_balance_at_date" -> Len(load_data_db(p.before, NoUserArg)) = 0
      [] p.fn = "calculate_monthly_budget_target" -> Len(budget_rules) = 0
      [] p.fn = "_upsert_settlement_transfer" ->
             \/ Len(load_data_db(accounts, p.user_id)) = 0
             \/ Len(load_data_db(p.before, p.user_id)) = 0
      [] OTHER -> Len(load_data_db(p.before, p.user_id)) = 0

\* C22: an operation of the engine whose load returns nothing does not
\* raise and gives its zero result: no live balance, a balance as of a date
\* and a statement balance of 0, no target, and a ledger the reconciler left
\* as it was.
C22_EmptyGivesZero ==
    (probe.fn \in EngineCalls /\ probe.done /\ LoadsNothing(probe)) =>
        /\ ~probe.raised
        /\ CASE probe.fn \in {"_get_live_balances", "_compute_account_balances"} ->
                    DOMAIN probe.out = {}
             [] probe.fn \in {"_calculate_system_balance", "_get_balance_at_date",
                              "get_statement_balance"} ->
                    probe.out = 0
             [] probe.fn = "calculate_monthly_budget_target" -> probe.out = {<< >>}
             [] OTHER -> ledger = probe.before

(***************************************************************************)
(* The schedules of the saved loans                                        *)
(***************************************************************************)
\* the rows of the schedule the page computed
Preview == probe.out.rows

\* the page has computed the schedule of the loan drawn
Previewed == probe.fn = "preview" /\ probe.done /\ ~probe.out.raised

\* C23: in every period of every schedule the installment and the reduction
\* applied are at most the balance the period starts with, the balance it
\* ends with is never negative, and the total payment reported is the
\* interest plus the fee plus the fall of the balance, so that what a clamp
\* takes off the installment or the extra payment is taken off the total too.
C23_ClampKeepsTotalConsistent ==
    Previewed =>
        \A k \in 1..Len(Preview) :
            /\ Preview[k].Principal <= Preview[k].Start_Balance
            /\ Preview[k].End_Balance >= 0
            /\ Preview[k].Total_Payment =
                   Preview[k].Interest + Preview[k].Fee
                       + (Preview[k].Start_Balance - Preview[k].End_Balance)

\* a period whose installment was clamped to the balance (5100 a month asks
\* for more than is left) and whose extra payments were clamped off whole
C23_Witness ==
    /\ Previewed
    /\ probe.in.loan_type = "Annuity"
    /\ probe.in.mode = "payment"
    /\ \E k \in 1..Len(Preview) :
          /\ probe.in.target_payment - Preview[k].Interest > Preview[k].Start_Balance
          /\ Preview[k].Principal = Preview[k].Start_Balance
          /\ Preview[k].Extra_Adj > 0
          /\ Preview[k].End_Balance = 0
          /\ Preview[k].Total_Payment =
                 Preview[k].Interest + Preview[k].Fee + Preview[k].Start_Balance

\* the rate and the fee in force in period k, those of the loan for k = 0
TermsInForce(k) ==
    IF k = 0 THEN <<probe.in.rate, probe.in.admin_fee>>
    ELSE <<Preview[k].Rate, Preview[k].Fee>>

RECURSIVE PaymentInForce(_)
\* the payment in force in period k as a plan by target date is to carry it:
\* solved at the start, solved anew from the balance and the date of every
\* period whose rate or fee is not that of the period before, and kept
\* otherwise; a plan by fixed amount keeps the configured payment
PaymentInForce(k) ==
    IF k = 0 THEN BasePayment(probe.in)
    ELSE IF probe.in.mode = "date" /\ TermsInForce(k) # TermsInForce(k - 1)
         THEN recalculate_payment(probe.in, Preview[k].Start_Balance,
                                  Preview[k].Rate, Preview[k].Date)
         ELSE PaymentInForce(k - 1)

\* C24: in every period of an Annuity or Serial loan that is not
\* interest-only the installment is the one of the payment in force: in a
\* plan by target date the payment is solved anew (from the balance left and
\* the months left to the target date, at least 1) in every period whose
\* terms differ from those of the period before and kept in every other
\* period; in a plan by fixed amount it is the configured payment throughout.
C24_PaymentFollowsTerms ==
    (Previewed /\ probe.in.loan_type \in {"Annuity", "Serial"}) =>
        \A k \in 1..Len(Preview) :
            Preview[k].Status = "Payment" =>
                Preview[k].Principal =
                    Min(Preview[k].Start_Balance,
                        IF probe.in.loan_type = "Serial" THEN PaymentInForce(k)
                        ELSE Max(PaymentInForce(k), Preview[k].Interest)
                                 - Preview[k].Interest)

\* the changes of terms recorded for the loan drawn, in the order recorded
Recorded ==
    {probe.in.terms_history_df[n] : n \in
        {m \in 1..Len(probe.in.terms_history_df) :
            probe.in.terms_history_df[m].loan_id = probe.in.id}}

\* those of them in effect on day d
InEffect(d) == {r \in Recorded : r.change_date <= d}

\* C25: in every period the rate and the fee are those of a recorded change
\* of terms that is in effect on the period's date and has the latest date
\* of all such changes, in whatever order the changes were recorded, and the
\* base rate and fee of the loan when no change is in effect yet; a change
\* dated after the period's date is never the one used.
C25_LatestTermsInEffect ==
    Previewed =>
        \A k \in 1..Len(Preview) :
            IF InEffect(Preview[k].Date) = {}
            THEN /\ Preview[k].Rate = probe.in.rate
                 /\ Preview[k].Fee = probe.in.admin_fee
            ELSE \E r \in InEffect(Preview[k].Date) :
                    /\ \A q \in InEffect(Preview[k].Date) :
                           q.change_date <= r.change_date
                    /\ Preview[k].Rate = r.interest_rate
                    /\ Preview[k].Fee = r.admin_fee

\* two changes recorded against the order of their dates, a period in which
\* both are in effect and which runs on the later one, recorded first, and
\* an earlier period in which no change is in effect
C25_Witness ==
    /\ Previewed
    /\ Len(probe.in.terms_history_df) = 2
    /\ probe.in.terms_history_df[1].change_date > probe.in.terms_history_df[2].change_date
    /\ probe.in.terms_history_df[1].interest_rate # probe.in.terms_history_df[2].interest_rate
    /\ \E k \in 1..Len(Preview) :
          /\ Preview[k].Date >= probe.in.terms_history_df[1].change_date
          /\ Preview[k].Rate = probe.in.terms_history_df[1].interest_rate
          /\ Preview[k].Fee = probe.in.terms_history_df[1].admin_fee
    /\ \E k \in 1..Len(Preview) :
          /\ InEffect(Preview[k].Date) = {}
          /\ Preview[k].Rate = probe.in.rate

\* day d lies in the interest-only window of the loan drawn, bounds included
InWindow(d) ==
    /\ probe.in.io_from # NaT
    /\ probe.in.io_to # NaT
    /\ probe.in.io_from <= d
    /\ d <= probe.in.io_to

\* what of the extra payments of period k is applied: all of it, or as much
\* as the period's starting balance when it is more
ExtraApplied(k) ==
    IF Preview[k].Extra_Adj > Preview[k].Start_Balance
    THEN Preview[k].Start_Balance ELSE Preview[k].Extra_Adj

\* C26: in every period of a Frame loan, in either planning mode, and in
\* every period of any loan dated inside the interest-only window, bounds
\* included, the installment is 0 and the required payment is the period's
\* interest (the total is interest, fee and the extra payment applied), so
\* the balance falls by the extra payment applied and by nothing else.
C26_InterestOnlyPeriods ==
    Previewed =>
        \A k \in 1..Len(Preview) :
            (probe.in.loan_type = "Frame" \/ InWindow(Preview[k].Date)) =>
                /\ Preview[k].Principal = 0
                /\ Preview[k].Total_Payment - Preview[k].Fee - ExtraApplied(k)
                       = Preview[k].Interest
                /\ Preview[k].Start_Balance - Preview[k].End_Balance
                       = ExtraApplied(k)

\* a Serial loan with a period on the first day of the window, which pays
\* interest alone, after a period before the window that paid an installment
C26_Witness ==
    /\ Previewed
    /\ probe.in.loan_type = "Serial"
    /\ \E k \in 2..Len(Preview) :
          /\ Preview[k].Date = probe.in.io_from
          /\ Preview[k].Principal = 0
          /\ Preview[k].Interest > 0
          /\ Preview[k].End_Balance = Preview[k].Start_Balance
          /\ Preview[k - 1].Principal > 0

\* the adjustments recorded for the loan drawn that are dated in the month
\* of day d
AdjustmentsOfMonth(d) ==
    SelectSeq(probe.in.extra_payments_df, LAMBDA r :
        /\ r.loan_id = probe.in.id
        /\ Year(r.pay_date) = Year(d)
        /\ Month(r.pay_date) = Month(d))

\* C27: the extra payment of every period is the sum of all adjustments of
\* the loan dated in the period's year and month; it is applied on top of
\* the installment, to the reduction of the balance and to the total payment
\* alike (as far as the balance goes); no two periods fall in one month, so
\* that an adjustment is applied in at most one period; and a period whose
\* adjustments are all 0 or more never ends with more debt than it starts
\* with.
C27_ExtrasOfTheMonthApplied ==
    Previewed =>
        /\ \A k \in 1..Len(Preview) :
              LET due == Preview[k].Principal + Preview[k].Extra_Adj
                  applied == IF due > Preview[k].Start_Balance
                             THEN Preview[k].Start_Balance ELSE due
              IN  /\ Preview[k].Extra_Adj =
                         SumAmounts(AdjustmentsOfMonth(Preview[k].Date))
                  /\ Preview[k].Start_Balance - Preview[k].End_Balance = applied
                  /\ Preview[k].Total_Payment =
                         Preview[k].Interest + Preview[k].Fee + applied
                  /\ (\A n \in 1..Len(AdjustmentsOfMonth(Preview[k].Date)) :
                         AdjustmentsOfMonth(Preview[k].Date)[n].amount >= 0)
                       => Preview[k].End_Balance <= Preview[k].Start_Balance
        /\ \A j, k \in 1..Len(Preview) :
              (/\ Year(Preview[j].Date) = Year(Preview[k].Date)
               /\ Month(Preview[j].Date) = Month(Preview[k].Date)) => j = k

\* two adjustments of one month, applied together in the period of that
\* month on top of its installment, and in no other period
C27_Witness ==
    /\ Previewed
    /\ \E k \in 1..Len(Preview) :
          /\ Len(AdjustmentsOfMonth(Preview[k].Date)) = 2
          /\ Preview[k].Extra_Adj > AdjustmentsOfMonth(Preview[k].Date)[2].amount
          /\ Preview[k].Principal > 0
          /\ Preview[k].End_Balance =
                 Preview[k].Start_Balance - Preview[k].Principal
                     - Preview[k].Extra_Adj
          /\ Preview[k].End_Balance > 0
          /\ \A j \in 1..Len(Preview) : j # k => Preview[j].Extra_Adj = 0

\* the months from year 0 to the month of day d
MonthNumber(d) == Year(d) * 12 + Month(d)

\* day e is one calendar month after day d: in the next month, on the same
\* day of the month, or on the last day of that month when it is shorter
OneMonthAfter(d, e) ==
    /\ MonthNumber(e) = MonthNumber(d) + 1
    /\ Day(e) = IF Day(d) > DaysInMonth(Year(e), Month(e))
                THEN DaysInMonth(Year(e), Month(e)) ELSE Day(d)

\* C28: the first period of every schedule is dated on the payment day of
\* the month of the start date, or of the month after it when the day of the
\* start date is after the payment day; the periods are numbered 1, 2, 3, ...
\* without gaps; every later period is dated one calendar month after the
\* one before; and every period starts with the balance the one before ended
\* with, the first with the opening balance.
C28_PeriodsChained ==
    (Previewed /\ Len(Preview) > 0) =>
        /\ Day(Preview[1].Date) = probe.in.payment_day
        /\ MonthNumber(Preview[1].Date) =
               IF Day(probe.in.start_date) > probe.in.payment_day
               THEN MonthNumber(probe.in.start_date) + 1
               ELSE MonthNumber(probe.in.start_date)
        /\ Preview[1].Start_Balance = probe.in.balance
        /\ \A k \in 1..Len(Preview) : Preview[k].Month = k
        /\ \A k \in 2..Len(Preview) :
              /\ OneMonthAfter(Preview[k - 1].Date, Preview[k].Date)
              /\ Preview[k].Start_Balance = Preview[k - 1].End_Balance

\* a loan started on the last day of January with payment day 28: its first
\* period is dated 28 February, and it runs over the turn of a quarter
C28_Witness ==
    /\ Previewed
    /\ Day(probe.in.start_date) > probe.in.payment_day
    /\ Len(Preview) >= 3
    /\ Preview[1].Date = 20240228
    /\ Preview[3].Date = 20240428
    /\ Preview[3].Month = 3
    /\ Preview[3].Start_Balance = Preview[2].End_Balance
    /\ Preview[3].Start_Balance < Preview[1].Start_Balance

(***************************************************************************)
(* The frame of the reconciler                                             *)
(***************************************************************************)
\* the row of the accounts table the reconciler was run for, as a list of 0
\* or 1 rows
AccountOfCall(call) ==
    SelectSeq(accounts, LAMBDA a :
        a.user_id = call.user_id /\ a.name = call.account)

\* the run has nothing to settle: the account is unknown to the owner, is
\* no credit card, or the date that set it off is no date
NothingToSettle(call) ==
    \/ Len(AccountOfCall(call)) = 0
    \/ AccountOfCall(call)[1].account_type # "Credit Card"
    \/ ~IsCalendarDate(call.date)

\* row r is tagged as the settlement of the card of the run, on the
\* settlement date of the run
SettlementRowOf(call, r) ==
    /\ r.user_id = call.user_id
    /\ r.description = AutoSettleDescription(call.account)
    /\ r.date = SettlementDate(call.date, DueDayOf(AccountOfCall(call)[1]))

\* the rows entered by a person carry the payee the person named
PostedByPerson(r) == r.payee = "Kiwi"

\* C29: an entry and the reconciler run it sets off leave every row the
\* ledger held in place; when the account is unknown, no credit card, or the
\* date is no date, the ledger gains the entry and nothing else; otherwise
\* every row added besides the entry, and every row changed, is tagged as
\* the settlement of that card on the settlement date of the run, and no row
\* a person entered is changed or removed.
C29_ReconcilerFrame ==
    [][posts' = posts + 1 =>
          LET n == Len(ledger)
              call == last_call'
          IN  /\ Len(ledger') >= n + 1
              /\ PostedByPerson(ledger'[n + 1])
              /\ NothingToSettle(call) =>
                     /\ Len(ledger') = n + 1
                     /\ \A i \in 1..n : ledger'[i] = ledger[i]
              /\ \A i \in 1..n :
                     ledger'[i] # ledger[i] =>
                         /\ ~NothingToSettle(call)
                         /\ SettlementRowOf(call, ledger[i])
                         /\ SettlementRowOf(call, ledger'[i])
                         /\ ~PostedByPerson(ledger[i])
              /\ \A i \in (n + 2)..Len(ledger') :
                     SettlementRowOf(call, ledger'[i])]_vars

(***************************************************************************)
(* The postings of the amortization executor                               *)
(***************************************************************************)
\* the rows a step adds to the ledger
Added == SubSeq(ledger', Len(ledger) + 1, Len(ledger'))

\* the inflows to the loan account among rows
LoanInflows(rows) ==
    SelectSeq(rows, LAMBDA r : r.account = loans[1].name /\ r.type = "income")

\* the repayments out of the funding account among rows
FundingRepayments(rows) ==
    SelectSeq(rows, LAMBDA r :
        /\ r.account = loans[1].pay_from_account
        /\ r.type = "expense"
        /\ r.category = "Loan Repayment")

\* the periods posted: every period of these loans carries a fee
PeriodsPosted(rows) == Len(SelectSeq(rows, LAMBDA r : r.category = "Loan Fees"))

\* the schedule the executor posts from
ExecutedSchedule ==
    _generate_schedule(loans[1].balance, loans[1].interest_rate, Today,
                       loans[1].payment_day, loans[1].calculation_mode,
                       loans[1].loan_type, loans[1].min_payment,
                       to_datetime(loans[1].target_date), loans[1].admin_fee,
                       _load_adjustments(loan_extra_payments, loans[1].id),
                       _load_terms_history(loan_terms_history, loans[1].id),
                       NaT, NaT).rows

\* C30: when the executor posts the first N periods of a schedule, the
\* inflows to the loan account and the repayments out of the funding account
\* come in pairs of one date and one amount, and the inflows add up to the
\* fall of the schedule's balance over the N periods, which is never more
\* than the opening balance, also when the installment or the extra payment
\* of the last period was clamped.
C30_PostingsFollowSchedule ==
    [][posts' = posts + 1 =>
          LET ins == LoanInflows(Added)
              outs == FundingRepayments(Added)
              N == PeriodsPosted(Added)
          IN  /\ Len(ins) = Len(outs)
              /\ \A i \in 1..Len(ins) :
                    /\ ins[i].date = outs[i].date
                    /\ ins[i].amount = 0 - outs[i].amount
                    /\ ins[i].amount > 0
              /\ N > 0 =>
                    /\ SumAmounts(ins) =
                           loans[1].balance - ExecutedSchedule[N].End_Balance
                    /\ SumAmounts(ins) <= loans[1].balance]_vars

====
